---- MODULE Spec2Model ----
(***************************************************************************)
(* Contract versioning and migration engine (VersionManager) of the        *)
(* Stellar Insured Soroban contracts, contracts/shared/src/versioning.rs.  *)
(*                                                                         *)
(* The contract's instance storage is a partial map from storage keys to   *)
(* values.  Every VersionManager operation is an operator from a storage   *)
(* map (and its arguments) to a result and a new storage map.  migrate     *)
(* runs a caller-supplied hook between its two halves; the hook is a       *)
(* callback that may call back into the engine (ensure_compatible,         *)
(* migrate, initialize, the queries) before it returns Ok, returns an      *)
(* error, or is aborted by the host.  reset_migration_state needs the      *)
(* admin's proof of identity for the invocation and is a top-level call.   *)
(***************************************************************************)
EXTENDS Integers, Sequences, FiniteSets, TLC

\* ------------------------------------------------------------------------
\* Bounds of the model
\* ------------------------------------------------------------------------
MaxVersion == 3        \* version numbers offered as call arguments: 0..MaxVersion
MaxTime == 2           \* the ledger clock runs 0..MaxTime
MaxDepth == 2          \* calls are issued at hook nesting depth < MaxDepth
HistMaxVersion == 103  \* SpecHist migrates one step at a time up to this version
MaxCode == 110         \* SpecCodes converts the codes 0..MaxCode
MaxAmount == 2         \* SpecTreasury deposits and withdraws amounts -1..MaxAmount
MaxBalance == 3        \* SpecTreasury deposits while the balance stays <= MaxBalance
MaxEvents == 3         \* SpecPause records at most this many pause events
MaxPauseTime == 1      \* the ledger clock of SpecPause runs 0..MaxPauseTime

\* ------------------------------------------------------------------------
\* Program constants
\* ------------------------------------------------------------------------
MAX_VERSION_HISTORY == 100

CONTRACT_VERSION == "VERSION"
CONTRACT_VERSION_HISTORY == "VERS_HIS"
MIGRATION_STATE == "MIG_STA"
LAST_MIGRATION_TIME == "LAST_MIG"

MigrationState == {"None", "InProgress", "Complete", "RollbackRequired"}

\* MigrationState `as u32`
migration_state_to_u32(state) ==
    CASE state = "None" -> 0
      [] state = "InProgress" -> 1
      [] state = "Complete" -> 2
      [] state = "RollbackRequired" -> 3

VersioningError ==
    {"NotInitialized", "VersionMismatch", "MigrationInProgress", "MigrationFailed",
     "UnauthorizedUpgrade", "InvalidVersionNumber", "MigrationHookFailed",
     "SchemaValidationFailed", "RollbackFailed"}

\* Errors the modelled hooks return (any VersioningError is possible; these
\* three include one the engine itself also produces).
HookErrors == {"MigrationHookFailed", "SchemaValidationFailed", "InvalidVersionNumber"}

Addresses == {"admin", "other"}

\* The principals that authorize migrations in Spec.
Migrators == {"admin"}

Versions == 0..MaxVersion

\* ------------------------------------------------------------------------
\* State
\* ------------------------------------------------------------------------
VARIABLES
    store,       \* instance storage: a function from the keys present to their values
    stack,       \* the migrate calls whose hook is running, outermost first
    now,         \* env.ledger().timestamp()
    last,        \* the most recent call: arguments, storage before it, result
    migrations,  \* history variable: successful migrations since initialize
    frozenAt     \* history variable: version stored before the latest hook-failed migrate

vars == <<store, stack, now, last, migrations, frozenAt>>

\* ------------------------------------------------------------------------
\* Storage collaborator
\* ------------------------------------------------------------------------
EmptyStore == [k \in {} |-> 0]

has(s, k) == k \in DOMAIN s

set(s, k, v) == [x \in (DOMAIN s) \cup {k} |-> IF x = k THEN v ELSE s[x]]

\* get(k).unwrap_or(d)
get_or(s, k, d) == IF has(s, k) THEN s[k] ELSE d

\* ------------------------------------------------------------------------
\* VersionManager: queries
\* ------------------------------------------------------------------------
Ok(v) == [ok |-> TRUE, err |-> "Ok", val |-> v]
Err(e) == [ok |-> FALSE, err |-> e, val |-> 0]

\* get(&CONTRACT_VERSION).ok_or(NotInitialized)
current_version_mut_default(s) == Ok(get_or(s, CONTRACT_VERSION, 0))

current_version(s) ==
    IF has(s, CONTRACT_VERSION) THEN Ok(s[CONTRACT_VERSION]) ELSE Err("NotInitialized")

\* get(&CONTRACT_VERSION_HISTORY).ok_or(NotInitialized)
version_history(s) ==
    IF has(s, CONTRACT_VERSION_HISTORY)
    THEN [ok |-> TRUE, err |-> "Ok", val |-> s[CONTRACT_VERSION_HISTORY]]
    ELSE [ok |-> FALSE, err |-> "NotInitialized", val |-> <<>>]

NoInfo ==
    [current_version |-> 0, migration_count |-> 0,
     last_migration_time |-> 0, migration_state |-> 0]

version_info_mut_wrong_key(s) ==
    IF ~current_version(s).ok THEN [ok |-> FALSE, err |-> current_version(s).err, val |-> NoInfo]
    ELSE IF ~version_history(s).ok THEN [ok |-> FALSE, err |-> version_history(s).err, val |-> NoInfo]
    ELSE [ok |-> TRUE, err |-> "Ok",
          val |-> [current_version |-> current_version(s).val,
                   migration_count |-> Len(version_history(s).val),
                   migration_state |-> get_or(s, MIGRATION_STATE, 0),
                   last_migration_time |-> get_or(s, MIGRATION_STATE, 0)]]

version_info(s) ==
    IF ~current_version(s).ok THEN [ok |-> FALSE, err |-> current_version(s).err, val |-> NoInfo]
    ELSE IF ~version_history(s).ok THEN [ok |-> FALSE, err |-> version_history(s).err, val |-> NoInfo]
    ELSE [ok |-> TRUE, err |-> "Ok",
          val |-> [current_version |-> current_version(s).val,
                   migration_count |-> Len(version_history(s).val),
                   migration_state |-> get_or(s, MIGRATION_STATE, 0),
                   last_migration_time |-> get_or(s, LAST_MIGRATION_TIME, 0)]]

\* ------------------------------------------------------------------------
\* VersionManager::initialize
\* ------------------------------------------------------------------------
\* The four writes of a successful initialize.
initialize_store_mut_v1(s, initial_version, timestamp) ==
    LET s1 == set(s, CONTRACT_VERSION, 1)
        s2 == set(s1, CONTRACT_VERSION_HISTORY, <<>>)
        s3 == set(s2, MIGRATION_STATE, migration_state_to_u32("None"))
    IN  set(s3, LAST_MIGRATION_TIME, timestamp)

initialize_store(s, initial_version, timestamp) ==
    LET s1 == set(s, CONTRACT_VERSION, initial_version)
        s2 == set(s1, CONTRACT_VERSION_HISTORY, <<>>)
        s3 == set(s2, MIGRATION_STATE, migration_state_to_u32("None"))
    IN  set(s3, LAST_MIGRATION_TIME, timestamp)

\* [res, store] of initialize(env, initial_version) at ledger time timestamp
initialize_mut_zero(s, initial_version, timestamp) ==
    IF has(s, CONTRACT_VERSION) THEN [res |-> "NotInitialized", store |-> s]
    ELSE [res |-> "Ok", store |-> initialize_store(s, initial_version, timestamp)]

initialize_mut_reinit(s, initial_version, timestamp) ==
    IF initial_version = 0 THEN [res |-> "InvalidVersionNumber", store |-> s]
    ELSE [res |-> "Ok", store |-> initialize_store(s, initial_version, timestamp)]

initialize_mut_state_key(s, initial_version, timestamp) ==
    IF has(s, MIGRATION_STATE) THEN [res |-> "NotInitialized", store |-> s]
    ELSE IF initial_version = 0 THEN [res |-> "InvalidVersionNumber", store |-> s]
    ELSE [res |-> "Ok", store |-> initialize_store(s, initial_version, timestamp)]

initialize(s, initial_version, timestamp) ==
    IF has(s, CONTRACT_VERSION) THEN [res |-> "NotInitialized", store |-> s]
    ELSE IF initial_version = 0 THEN [res |-> "InvalidVersionNumber", store |-> s]
    ELSE [res |-> "Ok", store |-> initialize_store(s, initial_version, timestamp)]

\* ------------------------------------------------------------------------
\* VersionManager::ensure_compatible
\* ------------------------------------------------------------------------
ensure_compatible_mut_order(s, expected_version) ==
    LET current == current_version(s)
        migration_state == get_or(s, MIGRATION_STATE, 0)
    IN  IF ~current.ok THEN current.err
        ELSE IF current.val = expected_version THEN "Ok"
        ELSE IF migration_state = migration_state_to_u32("InProgress") THEN "MigrationInProgress"
        ELSE IF migration_state = migration_state_to_u32("RollbackRequired") THEN "RollbackFailed"
        ELSE "VersionMismatch"

ensure_compatible_mut_skip_inprogress(s, expected_version) ==
    LET migration_state == get_or(s, MIGRATION_STATE, 0)
        current == current_version(s)
    IN  IF migration_state = migration_state_to_u32("RollbackRequired") THEN "RollbackFailed"
        ELSE IF ~current.ok THEN current.err
        ELSE IF current.val # expected_version THEN "VersionMismatch"
        ELSE "Ok"

ensure_compatible_mut_any_state(s, expected_version) ==
    LET migration_state == get_or(s, MIGRATION_STATE, 0)
        current == current_version(s)
    IN  IF migration_state = migration_state_to_u32("RollbackRequired") THEN "RollbackFailed"
        ELSE IF migration_state # migration_state_to_u32("None") THEN "MigrationInProgress"
        ELSE IF ~current.ok THEN current.err
        ELSE IF current.val # expected_version THEN "VersionMismatch"
        ELSE "Ok"

ensure_compatible_mut_only_none(s, expected_version) ==
    LET migration_state == get_or(s, MIGRATION_STATE, 0)
        current == current_version(s)
    IN  IF migration_state = migration_state_to_u32("RollbackRequired") THEN "RollbackFailed"
        ELSE IF migration_state # migration_state_to_u32("None") THEN "MigrationInProgress"
        ELSE IF ~current.ok THEN current.err
        ELSE IF current.val # expected_version THEN "VersionMismatch"
        ELSE "Ok"

ensure_compatible(s, expected_version) ==
    LET migration_state == get_or(s, MIGRATION_STATE, 0)
        current == current_version(s)
    IN  IF migration_state = migration_state_to_u32("InProgress") THEN "MigrationInProgress"
        ELSE IF migration_state = migration_state_to_u32("RollbackRequired") THEN "RollbackFailed"
        ELSE IF ~current.ok THEN current.err
        ELSE IF current.val # expected_version THEN "VersionMismatch"
        ELSE "Ok"

\* ------------------------------------------------------------------------
\* VersionManager::migrate
\* ------------------------------------------------------------------------
validate_version_upgrade_mut_lt(current, new_version) ==
    IF new_version < current THEN "InvalidVersionNumber" ELSE "Ok"

validate_version_upgrade(current, new_version) ==
    IF new_version <= current THEN "InvalidVersionNumber" ELSE "Ok"

\* The three preconditions of migrate, in the code's order; "Ok" when all pass.
migrate_mut_no_guard(s, from_version, to_version) ==
    LET current == current_version(s)
    IN  IF validate_version_upgrade(from_version, to_version) # "Ok"
        THEN validate_version_upgrade(from_version, to_version)
        ELSE IF ~current.ok THEN current.err
        ELSE IF current.val # from_version THEN "VersionMismatch"
        ELSE "Ok"

migrate_mut_state_first(s, from_version, to_version) ==
    LET current == current_version(s)
        migration_state == get_or(s, MIGRATION_STATE, 0)
    IN  IF validate_version_upgrade(from_version, to_version) # "Ok"
        THEN validate_version_upgrade(from_version, to_version)
        ELSE IF migration_state = migration_state_to_u32("InProgress") THEN "MigrationInProgress"
        ELSE IF ~current.ok THEN current.err
        ELSE IF current.val # from_version THEN "VersionMismatch"
        ELSE "Ok"

migrate_preconditions(s, from_version, to_version) ==
    LET current == current_version(s)
        migration_state == get_or(s, MIGRATION_STATE, 0)
    IN  IF validate_version_upgrade(from_version, to_version) # "Ok"
        THEN validate_version_upgrade(from_version, to_version)
        ELSE IF ~current.ok THEN current.err
        ELSE IF current.val # from_version THEN "VersionMismatch"
        ELSE IF migration_state = migration_state_to_u32("InProgress") THEN "MigrationInProgress"
        ELSE "Ok"

\* Set migration state to InProgress, before the hook runs.
migrate_begin_mut_rollback(s) ==
    set(s, MIGRATION_STATE, migration_state_to_u32("RollbackRequired"))

migrate_begin(s) == set(s, MIGRATION_STATE, migration_state_to_u32("InProgress"))

\* The hook returned Err(e): set state to RollbackRequired (e is returned).
migrate_hook_failed_mut_stuck(s) == s

migrate_hook_failed_mut_none(s) ==
    set(s, MIGRATION_STATE, migration_state_to_u32("None"))

migrate_hook_failed_mut_undo(s) ==
    [k \in DOMAIN s \ {"CONFIG"} |->
        IF k = MIGRATION_STATE THEN migration_state_to_u32("RollbackRequired") ELSE s[k]]

migrate_hook_failed(s) ==
    set(s, MIGRATION_STATE, migration_state_to_u32("RollbackRequired"))

VersionTransition(from_version, to_version, migrated_by, migration_timestamp) ==
    [from_version |-> from_version, to_version |-> to_version,
     migrated_by |-> migrated_by, migration_timestamp |-> migration_timestamp,
     success |-> TRUE, message |-> "Migration successful"]

\* history.pop_back(), n times (popping an empty Vec returns None)
RECURSIVE pop_back_n(_, _)
pop_back_n(history, n) ==
    IF n <= 0 \/ history = <<>> THEN history
    ELSE pop_back_n(SubSeq(history, 1, Len(history) - 1), n - 1)

\* Trim the history when it has reached MAX_VERSION_HISTORY entries:
\* for _ in new_len..history.len() { history.pop_back(); }
trim_history_mut_gt(history) ==
    IF Len(history) > MAX_VERSION_HISTORY
    THEN pop_back_n(history, Len(history) - (MAX_VERSION_HISTORY - 1))
    ELSE history

trim_history_mut_front(history) ==
    IF Len(history) >= MAX_VERSION_HISTORY
    THEN SubSeq(history, Len(history) - (MAX_VERSION_HISTORY - 1) + 1, Len(history))
    ELSE history

trim_history(history) ==
    IF Len(history) >= MAX_VERSION_HISTORY
    THEN pop_back_n(history, Len(history) - (MAX_VERSION_HISTORY - 1))
    ELSE history

\* history.push_front(transition)
push_front_mut_back(history, transition) == Append(history, transition)

push_front(history, transition) == <<transition>> \o history

\* The hook returned Ok: version, history, last-migration-time, state Complete.
\* [res, store]; version_history(env)? can fail after the version was written.
migrate_commit_mut_no_time(s, from_version, to_version, migrator, timestamp) ==
    LET s1 == set(s, CONTRACT_VERSION, to_version)
        history == version_history(s1)
        transition == VersionTransition(from_version, to_version, migrator, timestamp)
        s2 == set(s1, CONTRACT_VERSION_HISTORY, push_front(trim_history(history.val), transition))
    IN  IF ~history.ok THEN [res |-> history.err, store |-> s1]
        ELSE [res |-> "Ok",
              store |-> set(s2, MIGRATION_STATE, migration_state_to_u32("Complete"))]

migrate_commit(s, from_version, to_version, migrator, timestamp) ==
    LET s1 == set(s, CONTRACT_VERSION, to_version)
        history == version_history(s1)
        transition == VersionTransition(from_version, to_version, migrator, timestamp)
        s2 == set(s1, CONTRACT_VERSION_HISTORY, push_front(trim_history(history.val), transition))
        s3 == set(s2, LAST_MIGRATION_TIME, timestamp)
    IN  IF ~history.ok THEN [res |-> history.err, store |-> s1]
        ELSE [res |-> "Ok",
              store |-> set(s3, MIGRATION_STATE, migration_state_to_u32("Complete"))]

\* ------------------------------------------------------------------------
\* VersionManager::reset_migration_state
\* ------------------------------------------------------------------------
reset_migration_state_mut_noop(s) == s

reset_migration_state_mut_clear_time(s) ==
    set(set(s, MIGRATION_STATE, migration_state_to_u32("None")), LAST_MIGRATION_TIME, 0)

reset_migration_state(s) == set(s, MIGRATION_STATE, migration_state_to_u32("None"))

\* ------------------------------------------------------------------------
\* Calls
\* ------------------------------------------------------------------------
\* The record of a call: its arguments, the storage it started from (pre),
\* the value its hook returned ("none" when no hook ran) and its result
\* ("pending" while its hook is running).
CallRecord(op, from, to, by, exp, hook, res, pre, depth) ==
    [op |-> op, from |-> from, to |-> to, by |-> by, exp |-> exp,
     hook |-> hook, res |-> res, pre |-> pre, depth |-> depth]

NoCall == CallRecord("none", 0, 0, "admin", 0, "none", "Ok", EmptyStore, 0)

Depth == Len(stack)

Init ==
    /\ store = EmptyStore
    /\ stack = <<>>
    /\ now = 0
    /\ last = NoCall
    /\ migrations = 0
    /\ frozenAt = 0

\* The ledger clock advances between invocations (never within one).
Tick ==
    /\ stack = <<>>
    /\ now < MaxTime
    /\ now' = now + 1
    /\ UNCHANGED <<store, stack, last, migrations, frozenAt>>

Initialize(initial_version) ==
    /\ Depth < MaxDepth
    /\ LET r == initialize(store, initial_version, now)
       IN  /\ store' = r.store
           /\ last' = CallRecord("initialize", 0, initial_version, "admin", 0, "none",
                                 r.res, store, Depth)
           /\ migrations' = IF r.res = "Ok" THEN 0 ELSE migrations
    /\ UNCHANGED <<stack, now, frozenAt>>

EnsureCompatible(expected_version) ==
    /\ Depth < MaxDepth
    /\ last' = CallRecord("ensure_compatible", 0, 0, "admin", expected_version, "none",
                          ensure_compatible(store, expected_version), store, Depth)
    /\ UNCHANGED <<store, stack, now, migrations, frozenAt>>

QueryResult(op, s) ==
    CASE op = "current_version" -> current_version(s).err
      [] op = "version_info" -> version_info(s).err
      [] op = "version_history" -> version_history(s).err

Query(op) ==
    /\ Depth < MaxDepth
    /\ last' = CallRecord(op, 0, 0, "admin", 0, "none", QueryResult(op, store), store, Depth)
    /\ UNCHANGED <<store, stack, now, migrations, frozenAt>>

\* migrate up to the invocation of the hook: a failed precondition returns
\* at once; otherwise the state is set to InProgress and the hook starts.
Migrate(from_version, to_version, migrator) ==
    /\ Depth < MaxDepth
    /\ LET chk == migrate_preconditions(store, from_version, to_version)
       IN  IF chk # "Ok"
           THEN /\ last' = CallRecord("migrate", from_version, to_version, migrator, 0,
                                      "none", chk, store, Depth)
                /\ UNCHANGED <<store, stack>>
           ELSE /\ store' = migrate_begin(store)
                /\ stack' = Append(stack, [from_version |-> from_version,
                                           to_version |-> to_version,
                                           migrator |-> migrator,
                                           pre |-> store])
                /\ last' = CallRecord("migrate", from_version, to_version, migrator, 0,
                                      "none", "pending", store, Depth)
    /\ UNCHANGED <<now, migrations, frozenAt>>

\* The innermost running hook returns r; migrate continues to its end.
HookReturn(r) ==
    /\ stack # <<>>
    /\ LET f == stack[Len(stack)]
           c == migrate_commit(store, f.from_version, f.to_version, f.migrator, now)
       IN  IF r # "Ok"
           THEN /\ store' = migrate_hook_failed(store)
                /\ last' = CallRecord("migrate", f.from_version, f.to_version, f.migrator, 0,
                                      r, r, f.pre, Len(stack) - 1)
                /\ frozenAt' = current_version(f.pre).val
                /\ UNCHANGED migrations
           ELSE /\ store' = c.store
                /\ last' = CallRecord("migrate", f.from_version, f.to_version, f.migrator, 0,
                                      r, c.res, f.pre, Len(stack) - 1)
                /\ migrations' = IF c.res = "Ok" THEN migrations + 1 ELSE migrations
                /\ UNCHANGED frozenAt
    /\ stack' = SubSeq(stack, 1, Len(stack) - 1)
    /\ UNCHANGED now

\* The host aborts the invocation while a hook runs (resource limit, panic):
\* every write of the invocation is rolled back.
HookAbort ==
    /\ stack # <<>>
    /\ store' = stack[1].pre
    /\ stack' = <<>>
    /\ last' = CallRecord("migrate", stack[1].from_version, stack[1].to_version,
                          stack[1].migrator, 0, "abort", "HostAbort", stack[1].pre, 0)
    /\ UNCHANGED <<now, migrations, frozenAt>>

\* reset_migration_state(env, admin): admin.require_auth() aborts the
\* invocation unless admin authorized it; then the state is set to None.
ResetMigrationState(admin, authorized) ==
    /\ stack = <<>>
    /\ IF authorized
       THEN /\ store' = reset_migration_state(store)
            /\ last' = CallRecord("reset_migration_state", 0, 0, admin, 0, "none",
                                  "Ok", store, 0)
       ELSE /\ last' = CallRecord("reset_migration_state", 0, 0, admin, 0, "none",
                                  "HostAbort", store, 0)
            /\ UNCHANGED store
    /\ UNCHANGED <<stack, now, migrations, frozenAt>>

Queries == {"current_version", "version_info", "version_history"}

Next ==
    \/ Tick
    \/ \E v \in Versions : Initialize(v)
    \/ \E v \in Versions : EnsureCompatible(v)
    \/ \E op \in Queries : Query(op)
    \/ \E f \in Versions, t \in Versions, a \in Migrators : Migrate(f, t, a)
    \/ \E r \in {"Ok"} \cup HookErrors : HookReturn(r)
    \/ HookAbort
    \/ \E a \in Addresses, auth \in BOOLEAN : ResetMigrationState(a, auth)

Spec == Init /\ [][Next]_vars

\* ------------------------------------------------------------------------
\* SpecHist: one contract initialized at version 1 and migrated one version
\* at a time (hooks succeeding or failing), far enough to fill the history.
\* ------------------------------------------------------------------------
MigrateNextVersion ==
    /\ has(store, CONTRACT_VERSION)
    /\ store[CONTRACT_VERSION] < HistMaxVersion
    /\ Migrate(store[CONTRACT_VERSION], store[CONTRACT_VERSION] + 1, "admin")

NextHist ==
    \/ Initialize(1)
    \/ MigrateNextVersion
    \/ \E r \in {"Ok", "MigrationHookFailed"} : HookReturn(r)
    \/ ResetMigrationState("admin", TRUE)

SpecHist == Init /\ [][NextHist]_vars

\* ------------------------------------------------------------------------
\* SpecWho: migrations authorized by either principal, to any version, under
\* a running ledger clock.
\* ------------------------------------------------------------------------
\* The upgrade pattern of the callers: from_version is current_version().
MigrateFromCurrent(to_version, migrator) ==
    /\ current_version(store).ok
    /\ Migrate(current_version(store).val, to_version, migrator)

NextWho ==
    \/ Tick
    \/ \E v \in Versions : Initialize(v)
    \/ \E t \in Versions, a \in Addresses : MigrateFromCurrent(t, a)
    \/ \E r \in {"Ok", "MigrationHookFailed"} : HookReturn(r)

SpecWho == Init /\ [][NextWho]_vars

\* ------------------------------------------------------------------------
\* SpecReset: upgrade transactions whose hook may itself call
\* reset_migration_state, so that the reset also runs in state InProgress.
\* ------------------------------------------------------------------------
\* reset_migration_state called by the running hook, authorized by admin.
HookResetMigrationState(admin) ==
    /\ stack # <<>>
    /\ Depth < MaxDepth
    /\ store' = reset_migration_state(store)
    /\ last' = CallRecord("reset_migration_state", 0, 0, admin, 0, "none",
                          "Ok", store, Depth)
    /\ UNCHANGED <<stack, now, migrations, frozenAt>>

\* The upgrade entry point invoked as a transaction of its own.
UpgradeTransaction(to_version, migrator) ==
    /\ stack = <<>>
    /\ MigrateFromCurrent(to_version, migrator)

NextReset ==
    \/ Tick
    \/ \E v \in Versions : Initialize(v)
    \/ \E t \in Versions : UpgradeTransaction(t, "admin")
    \/ \E r \in {"Ok", "MigrationHookFailed"} : HookReturn(r)
    \/ \E a \in Addresses, authorized \in BOOLEAN : ResetMigrationState(a, authorized)
    \/ \E a \in Addresses : HookResetMigrationState(a)

SpecReset == Init /\ [][NextReset]_vars

\* ------------------------------------------------------------------------
\* SpecHookData: upgrade transactions whose hook writes domain data
\* (the CONFIG record of the reference integration) before it returns.
\* ------------------------------------------------------------------------
CONFIG == "CONFIG"

\* The layouts of the CONFIG record: TreasuryConfigV1, TreasuryConfigV2.
ConfigLayouts == {"V1", "V2"}

\* The running hook stores a CONFIG record.
HookWrite(layout) ==
    /\ stack # <<>>
    /\ get_or(store, CONFIG, "none") # layout
    /\ store' = set(store, CONFIG, layout)
    /\ UNCHANGED <<stack, now, last, migrations, frozenAt>>

NextHookData ==
    \/ Tick
    \/ \E v \in Versions : Initialize(v)
    \/ \E t \in Versions : UpgradeTransaction(t, "admin")
    \/ \E layout \in ConfigLayouts : HookWrite(layout)
    \/ \E r \in {"Ok"} \cup HookErrors : HookReturn(r)

SpecHookData == Init /\ [][NextHookData]_vars

\* ------------------------------------------------------------------------
\* SpecCompose: upgrade transactions whose hook is compose_hooks(first,
\* second), first and second drawn from four hooks.
\* ------------------------------------------------------------------------
\* default_migration_hook; a hook that stores the V1 CONFIG record; the
\* reference hook migrate_v1_to_v2; a hook that fails.
HookKinds == {"default_migration_hook", "store_config_v1", "migrate_v1_to_v2", "failing_hook"}

\* [res, store] of running hook h on storage s.
run_hook(h, s) ==
    CASE h = "default_migration_hook" -> [res |-> "Ok", store |-> s]
      [] h = "store_config_v1" -> [res |-> "Ok", store |-> set(s, CONFIG, "V1")]
      [] h = "migrate_v1_to_v2" ->
             IF ~has(s, CONFIG) THEN [res |-> "SchemaValidationFailed", store |-> s]
             ELSE [res |-> "Ok", store |-> set(s, CONFIG, "V2")]
      [] h = "failing_hook" -> [res |-> "MigrationHookFailed", store |-> s]

compose_hooks_mut_swapped(first, second, s) ==
    LET a == run_hook(second, s)
        b == run_hook(first, a.store)
    IN  IF a.res # "Ok" THEN a ELSE b

compose_hooks_mut_no_short_circuit(first, second, s) ==
    LET a == run_hook(first, s)
        b == run_hook(second, a.store)
    IN  IF a.res # "Ok" THEN [res |-> a.res, store |-> b.store] ELSE b

\* first(env)?; second(env)?; Ok(())
compose_hooks(first, second, s) ==
    LET a == run_hook(first, s)
    IN  IF a.res # "Ok" THEN a
        ELSE LET b == run_hook(second, a.store)
             IN  IF b.res # "Ok" THEN b
                 ELSE [res |-> "Ok", store |-> b.store]

\* The hook of the running migrate, compose_hooks(first, second), runs.
RunComposedHook(first, second) ==
    /\ stack # <<>>
    /\ last.op = "migrate" /\ last.res = "pending"
    /\ LET c == compose_hooks(first, second, store)
       IN  /\ store' = c.store
           /\ last' = CallRecord("compose_hooks", 0, 0, "admin", 0, "none",
                                 c.res, store, Depth)
    /\ UNCHANGED <<stack, now, migrations, frozenAt>>

\* migrate goes on with the value the composed hook returned.
ComposedHookReturn ==
    /\ last.op = "compose_hooks"
    /\ HookReturn(last.res)

NextCompose ==
    \/ Tick
    \/ \E v \in Versions : Initialize(v)
    \/ \E t \in Versions : UpgradeTransaction(t, "admin")
    \/ \E first \in HookKinds, second \in HookKinds : RunComposedHook(first, second)
    \/ ComposedHookReturn

SpecCompose == Init /\ [][NextCompose]_vars

\* ------------------------------------------------------------------------
\* UpgradeableContract: the facade over VersionManager, and SpecFacade, in
\* which every call goes through it.
\* ------------------------------------------------------------------------
upgradeable_initialize_mut_zero(s, timestamp) == initialize(s, 0, timestamp)

upgradeable_initialize(s, timestamp) == initialize(s, 1, timestamp)

upgradeable_initialize_with_version(s, version, timestamp) ==
    initialize(s, version, timestamp)

upgradeable_ensure_version_compatible(s, expected_version) ==
    ensure_compatible(s, expected_version)

\* The arguments upgrade hands to VersionManager::migrate.
upgradeable_upgrade_mut_swapped(current_version_arg, new_version, migrator) ==
    [from_version |-> new_version, to_version |-> current_version_arg,
     migrator |-> migrator]

upgradeable_upgrade(current_version_arg, new_version, migrator) ==
    [from_version |-> current_version_arg, to_version |-> new_version,
     migrator |-> migrator]

upgradeable_current_version(s) == current_version(s)

upgradeable_version_info(s) == version_info(s)

upgradeable_version_history(s) == version_history(s)

upgradeable_reset_migration_state(s) == reset_migration_state(s)

FacadeInitialize ==
    /\ Depth < MaxDepth
    /\ LET r == upgradeable_initialize(store, now)
       IN  /\ store' = r.store
           /\ last' = CallRecord("UpgradeableContract::initialize", 0, 0, "admin", 0,
                                 "none", r.res, store, Depth)
           /\ migrations' = IF r.res = "Ok" THEN 0 ELSE migrations
    /\ UNCHANGED <<stack, now, frozenAt>>

FacadeInitializeWithVersion(version) ==
    /\ Depth < MaxDepth
    /\ LET r == upgradeable_initialize_with_version(store, version, now)
       IN  /\ store' = r.store
           /\ last' = CallRecord("UpgradeableContract::initialize_with_version", 0,
                                 version, "admin", 0, "none", r.res, store, Depth)
           /\ migrations' = IF r.res = "Ok" THEN 0 ELSE migrations
    /\ UNCHANGED <<stack, now, frozenAt>>

FacadeEnsureVersionCompatible(expected_version) ==
    /\ Depth < MaxDepth
    /\ last' = CallRecord("UpgradeableContract::ensure_version_compatible", 0, 0,
                          "admin", expected_version, "none",
                          upgradeable_ensure_version_compatible(store, expected_version),
                          store, Depth)
    /\ UNCHANGED <<store, stack, now, migrations, frozenAt>>

FacadeQueryResult(op, s) ==
    CASE op = "current_version" -> upgradeable_current_version(s).err
      [] op = "version_info" -> upgradeable_version_info(s).err
      [] op = "version_history" -> upgradeable_version_history(s).err

FacadeQuery(op) ==
    /\ Depth < MaxDepth
    /\ last' = CallRecord("UpgradeableContract::query", 0, 0, "admin", 0, op,
                          FacadeQueryResult(op, store), store, Depth)
    /\ UNCHANGED <<store, stack, now, migrations, frozenAt>>

\* upgrade(env, current_version, new_version, migrator, hook)
FacadeUpgrade(current_version_arg, new_version, migrator) ==
    /\ Depth < MaxDepth
    /\ LET a == upgradeable_upgrade(current_version_arg, new_version, migrator)
           chk == migrate_preconditions(store, a.from_version, a.to_version)
       IN  IF chk # "Ok"
           THEN /\ last' = CallRecord("UpgradeableContract::upgrade", current_version_arg,
                                      new_version, migrator, 0, "none", chk, store, Depth)
                /\ UNCHANGED <<store, stack>>
           ELSE /\ store' = migrate_begin(store)
                /\ stack' = Append(stack, [from_version |-> a.from_version,
                                           to_version |-> a.to_version,
                                           migrator |-> a.migrator,
                                           pre |-> store])
                /\ last' = CallRecord("UpgradeableContract::upgrade", current_version_arg,
                                      new_version, migrator, 0, "none", "pending",
                                      store, Depth)
    /\ UNCHANGED <<now, migrations, frozenAt>>

FacadeResetMigrationState(admin, authorized) ==
    /\ stack = <<>>
    /\ IF authorized
       THEN /\ store' = upgradeable_reset_migration_state(store)
            /\ last' = CallRecord("UpgradeableContract::reset_migration_state", 0, 0,
                                  admin, 0, "none", "Ok", store, 0)
       ELSE /\ last' = CallRecord("UpgradeableContract::reset_migration_state", 0, 0,
                                  admin, 0, "none", "HostAbort", store, 0)
            /\ UNCHANGED store
    /\ UNCHANGED <<stack, now, migrations, frozenAt>>

NextFacade ==
    \/ Tick
    \/ FacadeInitialize
    \/ \E v \in Versions : FacadeInitializeWithVersion(v)
    \/ \E v \in Versions : FacadeEnsureVersionCompatible(v)
    \/ \E op \in Queries : FacadeQuery(op)
    \/ \E f \in Versions, t \in Versions, a \in Migrators : FacadeUpgrade(f, t, a)
    \/ \E r \in {"Ok", "MigrationHookFailed"} : HookReturn(r)
    \/ \E a \in Addresses, auth \in BOOLEAN : FacadeResetMigrationState(a, auth)

SpecFacade == Init /\ [][NextFacade]_vars

\* ------------------------------------------------------------------------
\* Helper functions: the state-code conversions, and SpecCodes, which calls
\* them on every state and on the codes 0..MaxCode.
\* ------------------------------------------------------------------------
Codes == 0..MaxCode

u32_to_migration_state_mut_three(value) ==
    CASE value = 0 -> Ok("None")
      [] value = 1 -> Ok("InProgress")
      [] value = 2 -> Ok("Complete")
      [] OTHER -> Err("InvalidVersionNumber")

u32_to_migration_state(value) ==
    CASE value = 0 -> Ok("None")
      [] value = 1 -> Ok("InProgress")
      [] value = 2 -> Ok("Complete")
      [] value = 3 -> Ok("RollbackRequired")
      [] OTHER -> Err("InvalidVersionNumber")

\* migration_state_to_u32(state), then the code converted back.
StateToU32(state) ==
    /\ last' = CallRecord("migration_state_to_u32", 0, 0, "admin",
                          migration_state_to_u32(state), state,
                          u32_to_migration_state(migration_state_to_u32(state)).err,
                          store, 0)
    /\ UNCHANGED <<store, stack, now, migrations, frozenAt>>

\* u32_to_migration_state(value); the record keeps the state returned.
U32ToState(value) ==
    /\ last' = CallRecord("u32_to_migration_state", 0, 0, "admin", value,
                          IF u32_to_migration_state(value).ok
                          THEN u32_to_migration_state(value).val ELSE "none",
                          u32_to_migration_state(value).err, store, 0)
    /\ UNCHANGED <<store, stack, now, migrations, frozenAt>>

NextCodes ==
    \/ \E state \in MigrationState : StateToU32(state)
    \/ \E value \in Codes : U32ToState(value)

SpecCodes == Init /\ [][NextCodes]_vars

\* ------------------------------------------------------------------------
\* TreasuryContract, the reference integration, and SpecTreasury: one
\* treasury that is initialized, receives and pays out fees and is upgraded.
\* ------------------------------------------------------------------------
BALANCE == "BALANCE"
TOTAL_FEES == "TOTAL_FEES"

\* The amounts offered to deposit_fees and withdraw.
Amounts == -1..MaxAmount

map_versioning_error(e) ==
    CASE e = "NotInitialized" -> "ContractError::NotInitialized"
      [] e = "VersionMismatch" -> "ContractError::InvalidState"
      [] e = "MigrationInProgress" -> "ContractError::Paused"
      [] e = "MigrationFailed" -> "ContractError::InvalidState"
      [] e = "UnauthorizedUpgrade" -> "ContractError::Unauthorized"
      [] e = "InvalidVersionNumber" -> "ContractError::InvalidInput"
      [] e = "MigrationHookFailed" -> "ContractError::InvalidState"
      [] e = "SchemaValidationFailed" -> "ContractError::InvalidState"
      [] e = "RollbackFailed" -> "ContractError::InvalidState"

\* [res, store] of TreasuryContract::initialize at ledger time timestamp
treasury_initialize(s, timestamp) ==
    LET r == upgradeable_initialize(s, timestamp)
    IN  IF r.res # "Ok" THEN [res |-> map_versioning_error(r.res), store |-> s]
        ELSE [res |-> "Ok",
              store |-> set(set(set(r.store, CONFIG, "V1"), BALANCE, 0), TOTAL_FEES, 0)]

\* [res, store] of deposit_fees(env, source, amount)
deposit_fees(s, amount) ==
    LET chk == upgradeable_ensure_version_compatible(s, 1)
    IN  IF chk # "Ok" THEN [res |-> map_versioning_error(chk), store |-> s]
        ELSE IF amount <= 0 THEN [res |-> "ContractError::InvalidInput", store |-> s]
        ELSE [res |-> "Ok", store |-> set(s, BALANCE, get_or(s, BALANCE, 0) + amount)]

\* [res, store] of withdraw(env, recipient, amount)
withdraw(s, amount) ==
    LET chk == upgradeable_ensure_version_compatible(s, 1)
    IN  IF chk # "Ok" THEN [res |-> map_versioning_error(chk), store |-> s]
        ELSE IF ~has(s, CONFIG) THEN [res |-> "ContractError::NotInitialized", store |-> s]
        ELSE IF amount <= 0 THEN [res |-> "ContractError::InvalidInput", store |-> s]
        ELSE IF amount > get_or(s, BALANCE, 0)
             THEN [res |-> "ContractError::InsufficientFunds", store |-> s]
        ELSE [res |-> "Ok", store |-> set(s, BALANCE, get_or(s, BALANCE, 0) - amount)]

validate_treasury_invariants(s) ==
    IF get_or(s, BALANCE, 0) < 0 THEN "SchemaValidationFailed" ELSE "Ok"

migrate_v1_to_v2_mut_resets_funds(s) ==
    IF ~has(s, CONFIG) THEN [res |-> "SchemaValidationFailed", store |-> s]
    ELSE [res |-> "Ok", store |-> set(set(s, CONFIG, "V2"), BALANCE, 0)]

\* [res, store] of the hook migrate_v1_to_v2
migrate_v1_to_v2(s) ==
    IF ~has(s, CONFIG) THEN [res |-> "SchemaValidationFailed", store |-> s]
    ELSE [res |-> validate_treasury_invariants(set(s, CONFIG, "V2")),
          store |-> set(s, CONFIG, "V2")]

migrate_v2_to_v3(s) == [res |-> "Ok", store |-> s]

\* The closure upgrade passes as hook; current is the version it captured.
upgrade_hook(current, s) ==
    CASE current = 1 -> migrate_v1_to_v2(s)
      [] current = 2 -> migrate_v2_to_v3(s)
      [] OTHER -> [res |-> "InvalidVersionNumber", store |-> s]

TreasuryInitialize ==
    /\ stack = <<>>
    /\ LET r == treasury_initialize(store, now)
       IN  /\ store' = r.store
           /\ last' = CallRecord("TreasuryContract::initialize", 0, 0, "admin", 0,
                                 "none", r.res, store, 0)
           /\ migrations' = IF r.res = "Ok" THEN 0 ELSE migrations
    /\ UNCHANGED <<stack, now, frozenAt>>

DepositFees(amount) ==
    /\ stack = <<>>
    /\ get_or(store, BALANCE, 0) + amount <= MaxBalance
    /\ LET r == deposit_fees(store, amount)
       IN  /\ store' = r.store
           /\ last' = CallRecord("deposit_fees", 0, 0, "admin", amount, "none",
                                 r.res, store, 0)
    /\ UNCHANGED <<stack, now, migrations, frozenAt>>

Withdraw(amount) ==
    /\ stack = <<>>
    /\ LET r == withdraw(store, amount)
       IN  /\ store' = r.store
           /\ last' = CallRecord("withdraw", 0, 0, "admin", amount, "none",
                                 r.res, store, 0)
    /\ UNCHANGED <<stack, now, migrations, frozenAt>>

\* upgrade(env, new_version) up to the invocation of the hook. CONFIG is read
\* as TreasuryConfigV1: a stored V2 record either converts (decodes) or the
\* host aborts the invocation.
TreasuryUpgrade(new_version, decodes) ==
    /\ stack = <<>>
    /\ decodes \/ get_or(store, CONFIG, "V1") = "V2"
    /\ IF ~has(store, CONFIG)
       THEN /\ last' = CallRecord("upgrade", 0, new_version, "admin", 0, "none",
                                  "ContractError::NotInitialized", store, 0)
            /\ UNCHANGED <<store, stack>>
       ELSE IF ~decodes
       THEN /\ last' = CallRecord("upgrade", 0, new_version, "admin", 0, "none",
                                  "HostAbort", store, 0)
            /\ UNCHANGED <<store, stack>>
       ELSE IF ~upgradeable_current_version(store).ok
       THEN /\ last' = CallRecord("upgrade", 0, new_version, "admin", 0, "none",
                                  map_versioning_error(upgradeable_current_version(store).err),
                                  store, 0)
            /\ UNCHANGED <<store, stack>>
       ELSE LET current == upgradeable_current_version(store).val
                a == upgradeable_upgrade(current, new_version, "admin")
                chk == migrate_preconditions(store, a.from_version, a.to_version)
            IN  IF chk # "Ok"
                THEN /\ last' = CallRecord("upgrade", current, new_version, "admin", 0,
                                           "none", map_versioning_error(chk), store, 0)
                     /\ UNCHANGED <<store, stack>>
                ELSE /\ store' = migrate_begin(store)
                     /\ stack' = Append(stack, [from_version |-> a.from_version,
                                                to_version |-> a.to_version,
                                                migrator |-> a.migrator,
                                                pre |-> store])
                     /\ last' = CallRecord("upgrade", current, new_version, "admin", 0,
                                           "none", "pending", store, 0)
    /\ UNCHANGED <<now, migrations, frozenAt>>

\* The hook of the running upgrade runs to its end.
RunUpgradeHook ==
    /\ stack # <<>>
    /\ last.op = "upgrade" /\ last.res = "pending"
    /\ LET h == upgrade_hook(stack[Len(stack)].from_version, store)
       IN  /\ store' = h.store
           /\ last' = CallRecord("upgrade_hook", last.from, last.to, "admin", 0, "none",
                                 h.res, store, Depth)
    /\ UNCHANGED <<stack, now, migrations, frozenAt>>

\* migrate goes on with the value the hook returned.
UpgradeHookReturn ==
    /\ last.op = "upgrade_hook"
    /\ HookReturn(last.res)

NextTreasury ==
    \/ Tick
    \/ TreasuryInitialize
    \/ \E amount \in Amounts : DepositFees(amount)
    \/ \E amount \in Amounts : Withdraw(amount)
    \/ \E v \in Versions, decodes \in BOOLEAN : TreasuryUpgrade(v, decodes)
    \/ RunUpgradeHook
    \/ UpgradeHookReturn

SpecTreasury == Init /\ [][NextTreasury]_vars

\* ------------------------------------------------------------------------
\* EmergencyPause (emergency_pause.rs): the pause configuration and the
\* pause history, kept in the storage under their own keys.
\* ------------------------------------------------------------------------
EMERGENCY_PAUSE_CONFIG == "EMG_PAUSED"
EMERGENCY_PAUSE_HISTORY == "EMG_HISTORY"

\* The function names of the contract, and the lists of them handed to
\* pause_functions and unpause_functions.
FunctionNames == {"issue_policy", "renew_policy"}

FunctionLists == {<<"issue_policy">>, <<"renew_policy", "renew_policy">>}

\* max_duration_seconds offered to activate_emergency_pause (0 = indefinite).
Durations == {0, 1}

EmergencyPauseConfig(is_paused, reason, timestamp, by, functions, max_duration) ==
    [is_emergency_paused |-> is_paused, pause_reason |-> reason,
     pause_timestamp |-> timestamp, paused_by |-> by,
     paused_functions |-> functions, max_duration_seconds |-> max_duration]

\* The configuration is_function_paused falls back on.
DefaultPauseConfig == EmergencyPauseConfig(FALSE, "not_paused", 0, "GAAA", <<>>, 0)

Contains(seq, x) == \E i \in 1..Len(seq) : seq[i] = x

\* [res, store] of EmergencyPause::initialize(env, admin)
emergency_pause_initialize(s, admin) ==
    IF has(s, EMERGENCY_PAUSE_CONFIG) THEN [res |-> "AlreadyInitialized", store |-> s]
    ELSE [res |-> "Ok",
          store |-> set(s, EMERGENCY_PAUSE_CONFIG,
                        EmergencyPauseConfig(FALSE, "not_paused", 0, admin, <<>>, 0))]

is_emergency_paused(s) ==
    IF has(s, EMERGENCY_PAUSE_CONFIG)
    THEN s[EMERGENCY_PAUSE_CONFIG].is_emergency_paused
    ELSE FALSE

is_function_paused(s, function_name) ==
    LET config == get_or(s, EMERGENCY_PAUSE_CONFIG, DefaultPauseConfig)
    IN  IF config.is_emergency_paused THEN TRUE
        ELSE Contains(config.paused_functions, function_name)

EmergencyPauseEvent(action, actor, reason, timestamp, affected_functions) ==
    [action |-> action, actor |-> actor, reason |-> reason,
     timestamp |-> timestamp, affected_functions |-> affected_functions]

\* The storage after record_pause_event: push_back, then keep the last 100.
record_pause_event(s, action, actor, reason, affected_functions, timestamp) ==
    LET history == Append(get_or(s, EMERGENCY_PAUSE_HISTORY, <<>>),
                          EmergencyPauseEvent(action, actor, reason, timestamp,
                                              affected_functions))
        trimmed == IF Len(history) > 100
                   THEN SubSeq(history, Len(history) - 100 + 1, Len(history))
                   ELSE history
    IN  set(s, EMERGENCY_PAUSE_HISTORY, trimmed)

activate_emergency_pause_mut_keeps_list(s, admin, reason, max_duration_seconds, timestamp) ==
    IF ~has(s, EMERGENCY_PAUSE_CONFIG) THEN [res |-> "NotInitialized", store |-> s]
    ELSE IF s[EMERGENCY_PAUSE_CONFIG].is_emergency_paused
    THEN [res |-> "InvalidState", store |-> s]
    ELSE [res |-> "Ok",
          store |-> record_pause_event(
              set(s, EMERGENCY_PAUSE_CONFIG,
                  EmergencyPauseConfig(TRUE, reason, timestamp, admin,
                                       s[EMERGENCY_PAUSE_CONFIG].paused_functions,
                                       max_duration_seconds)),
              "emergency_pause", admin, reason, <<>>, timestamp)]

\* [res, store] of activate_emergency_pause at ledger time timestamp
activate_emergency_pause(s, admin, reason, max_duration_seconds, timestamp) ==
    IF ~has(s, EMERGENCY_PAUSE_CONFIG) THEN [res |-> "NotInitialized", store |-> s]
    ELSE IF s[EMERGENCY_PAUSE_CONFIG].is_emergency_paused
    THEN [res |-> "InvalidState", store |-> s]
    ELSE [res |-> "Ok",
          store |-> record_pause_event(
              set(s, EMERGENCY_PAUSE_CONFIG,
                  EmergencyPauseConfig(TRUE, reason, timestamp, admin, <<>>,
                                       max_duration_seconds)),
              "emergency_pause", admin, reason, <<>>, timestamp)]

\* [res, store] of deactivate_emergency_pause at ledger time timestamp
deactivate_emergency_pause(s, admin, reason, timestamp) ==
    IF ~has(s, EMERGENCY_PAUSE_CONFIG) THEN [res |-> "NotInitialized", store |-> s]
    ELSE IF ~s[EMERGENCY_PAUSE_CONFIG].is_emergency_paused
    THEN [res |-> "InvalidState", store |-> s]
    ELSE [res |-> "Ok",
          store |-> record_pause_event(
              set(s, EMERGENCY_PAUSE_CONFIG,
                  EmergencyPauseConfig(FALSE, "not_paused", 0, admin,
                                       s[EMERGENCY_PAUSE_CONFIG].paused_functions, 0)),
              "emergency_unpause", admin, reason, <<>>, timestamp)]

\* paused with the entries of functions[i..] that it does not hold appended.
RECURSIVE add_functions(_, _, _)
add_functions(paused, functions, i) ==
    IF i > Len(functions) THEN paused
    ELSE add_functions(IF Contains(paused, functions[i]) THEN paused
                       ELSE Append(paused, functions[i]),
                       functions, i + 1)

\* The entries of paused[i..] that functions does not hold, in their order.
RECURSIVE remove_functions(_, _, _)
remove_functions(paused, functions, i) ==
    IF i > Len(paused) THEN <<>>
    ELSE IF Contains(functions, paused[i]) THEN remove_functions(paused, functions, i + 1)
    ELSE <<paused[i]>> \o remove_functions(paused, functions, i + 1)

\* [res, store] of pause_functions at ledger time timestamp
pause_functions(s, admin, functions, reason, timestamp) ==
    IF ~has(s, EMERGENCY_PAUSE_CONFIG) THEN [res |-> "NotInitialized", store |-> s]
    ELSE [res |-> "Ok",
          store |-> record_pause_event(
              set(s, EMERGENCY_PAUSE_CONFIG,
                  [s[EMERGENCY_PAUSE_CONFIG] EXCEPT
                      !.paused_functions = add_functions(@, functions, 1)]),
              "selective_pause", admin, reason, functions, timestamp)]

\* [res, store] of unpause_functions at ledger time timestamp
unpause_functions(s, admin, functions, reason, timestamp) ==
    IF ~has(s, EMERGENCY_PAUSE_CONFIG) THEN [res |-> "NotInitialized", store |-> s]
    ELSE [res |-> "Ok",
          store |-> record_pause_event(
              set(s, EMERGENCY_PAUSE_CONFIG,
                  [s[EMERGENCY_PAUSE_CONFIG] EXCEPT
                      !.paused_functions = remove_functions(@, functions, 1)]),
              "selective_unpause", admin, reason, functions, timestamp)]

\* current_time.saturating_sub(pause_timestamp)
saturating_sub(a, b) == IF a >= b THEN a - b ELSE 0

\* [res, val, store] of check_pause_expiry at ledger time timestamp
check_pause_expiry(s, timestamp) ==
    IF ~has(s, EMERGENCY_PAUSE_CONFIG)
    THEN [res |-> "NotInitialized", val |-> FALSE, store |-> s]
    ELSE LET config == s[EMERGENCY_PAUSE_CONFIG]
         IN  IF ~config.is_emergency_paused \/ config.max_duration_seconds = 0
             THEN [res |-> "Ok", val |-> FALSE, store |-> s]
             ELSE IF saturating_sub(timestamp, config.pause_timestamp) >=
                         config.max_duration_seconds
             THEN [res |-> "Ok", val |-> TRUE,
                   store |-> record_pause_event(
                       set(s, EMERGENCY_PAUSE_CONFIG,
                           EmergencyPauseConfig(FALSE, "not_paused", 0, config.paused_by,
                                                config.paused_functions, 0)),
                       "auto_unpause", config.paused_by, "timeout", <<>>, timestamp)]
             ELSE [res |-> "Ok", val |-> FALSE, store |-> s]

\* [res, store] of validate_not_paused(env, function_name); function_name is
\* "None" or a function name.
validate_not_paused_mut_no_selective(s, function_name, timestamp) ==
    IF is_emergency_paused(s) THEN [res |-> "Paused", store |-> s]
    ELSE LET expiry == check_pause_expiry(s, timestamp)
         IN  IF expiry.res # "Ok" THEN [res |-> expiry.res, store |-> s]
             ELSE IF expiry.val THEN [res |-> "Paused", store |-> expiry.store]
             ELSE [res |-> "Ok", store |-> expiry.store]

validate_not_paused(s, function_name, timestamp) ==
    IF is_emergency_paused(s) THEN [res |-> "Paused", store |-> s]
    ELSE IF function_name # "None" /\ is_function_paused(s, function_name)
    THEN [res |-> "FunctionPaused", store |-> s]
    ELSE LET expiry == check_pause_expiry(s, timestamp)
         IN  IF expiry.res # "Ok" THEN [res |-> expiry.res, store |-> s]
             ELSE IF expiry.val THEN [res |-> "Paused", store |-> expiry.store]
             ELSE [res |-> "Ok", store |-> expiry.store]

\* The record of a call of the pause module: its arguments, the value a
\* query returned, its result and the storage it started from.
PauseCall(op, function_name, functions, duration, value, res, pre) ==
    [op |-> op, function_name |-> function_name, functions |-> functions,
     duration |-> duration, value |-> value, res |-> res, pre |-> pre]

PauseHistoryOf(s) == get_or(s, EMERGENCY_PAUSE_HISTORY, <<>>)

\* A call is issued when the history it leaves holds at most MaxEvents events.
EventsFit(s) == Len(PauseHistoryOf(s)) <= MaxEvents

PauseInitialize ==
    /\ LET r == emergency_pause_initialize(store, "admin")
       IN  /\ store' = r.store
           /\ last' = PauseCall("EmergencyPause::initialize", "None", <<>>, 0, FALSE,
                                r.res, store)
    /\ UNCHANGED <<stack, now, migrations, frozenAt>>

ActivateEmergencyPause(max_duration_seconds) ==
    /\ LET r == activate_emergency_pause(store, "admin", "test", max_duration_seconds, now)
       IN  /\ EventsFit(r.store)
           /\ store' = r.store
           /\ last' = PauseCall("activate_emergency_pause", "None", <<>>,
                                max_duration_seconds, FALSE, r.res, store)
    /\ UNCHANGED <<stack, now, migrations, frozenAt>>

DeactivateEmergencyPause ==
    /\ LET r == deactivate_emergency_pause(store, "admin", "resolved", now)
       IN  /\ EventsFit(r.store)
           /\ store' = r.store
           /\ last' = PauseCall("deactivate_emergency_pause", "None", <<>>, 0, FALSE,
                                r.res, store)
    /\ UNCHANGED <<stack, now, migrations, frozenAt>>

PauseFunctions(functions) ==
    /\ LET r == pause_functions(store, "admin", functions, "maintenance", now)
       IN  /\ EventsFit(r.store)
           /\ store' = r.store
           /\ last' = PauseCall("pause_functions", "None", functions, 0, FALSE,
                                r.res, store)
    /\ UNCHANGED <<stack, now, migrations, frozenAt>>

UnpauseFunctions(functions) ==
    /\ LET r == unpause_functions(store, "admin", functions, "maintenance", now)
       IN  /\ EventsFit(r.store)
           /\ store' = r.store
           /\ last' = PauseCall("unpause_functions", "None", functions, 0, FALSE,
                                r.res, store)
    /\ UNCHANGED <<stack, now, migrations, frozenAt>>

CheckPauseExpiry ==
    /\ LET r == check_pause_expiry(store, now)
       IN  /\ EventsFit(r.store)
           /\ store' = r.store
           /\ last' = PauseCall("check_pause_expiry", "None", <<>>, 0, r.val,
                                r.res, store)
    /\ UNCHANGED <<stack, now, migrations, frozenAt>>

IsEmergencyPaused ==
    /\ last' = PauseCall("is_emergency_paused", "None", <<>>, 0,
                         is_emergency_paused(store), "Ok", store)
    /\ UNCHANGED <<store, stack, now, migrations, frozenAt>>

ValidateNotPaused(function_name) ==
    /\ LET r == validate_not_paused(store, function_name, now)
       IN  /\ store' = r.store
           /\ last' = PauseCall("validate_not_paused", function_name, <<>>, 0, FALSE,
                                r.res, store)
    /\ UNCHANGED <<stack, now, migrations, frozenAt>>

\* The ledger closes and its timestamp advances.
PauseTick ==
    /\ now < MaxPauseTime
    /\ now' = now + 1
    /\ UNCHANGED <<store, stack, last, migrations, frozenAt>>

NextPause ==
    \/ PauseTick
    \/ PauseInitialize
    \/ \E d \in Durations : ActivateEmergencyPause(d)
    \/ DeactivateEmergencyPause
    \/ \E functions \in FunctionLists : PauseFunctions(functions)
    \/ \E functions \in FunctionLists : UnpauseFunctions(functions)
    \/ CheckPauseExpiry
    \/ IsEmergencyPaused
    \/ \E f \in FunctionNames \cup {"None"} : ValidateNotPaused(f)

SpecPause == Init /\ [][NextPause]_vars

PauseConfigOf(s) == s[EMERGENCY_PAUSE_CONFIG]

\* ------------------------------------------------------------------------
\* SpecNested: hooks that re-enter the engine and hand the error of the call
\* they made back to migrate, as in `VersionManager::migrate(env, ..)?`.
\* ------------------------------------------------------------------------
\* The innermost hook returns the error its own engine call just returned.
HookPropagate ==
    /\ stack # <<>>
    /\ last.depth = Len(stack)
    /\ last.res \notin {"Ok", "pending"}
    /\ HookReturn(last.res)

NextNested ==
    \/ \E v \in Versions : Initialize(v)
    \/ \E v \in Versions : EnsureCompatible(v)
    \/ \E f \in Versions, t \in Versions, a \in Migrators : Migrate(f, t, a)
    \/ \E r \in {"Ok"} \cup HookErrors : HookReturn(r)
    \/ HookPropagate
    \/ ResetMigrationState("admin", TRUE)

SpecNested == Init /\ [][NextNested]_vars

\* ------------------------------------------------------------------------
\* Observations
\* ------------------------------------------------------------------------
MigStateOf(s) == get_or(s, MIGRATION_STATE, 0)

SameVersionFacts(s1, s2) ==
    /\ has(s1, CONTRACT_VERSION) = has(s2, CONTRACT_VERSION)
    /\ has(s1, CONTRACT_VERSION_HISTORY) = has(s2, CONTRACT_VERSION_HISTORY)
    /\ has(s1, CONTRACT_VERSION) => s1[CONTRACT_VERSION] = s2[CONTRACT_VERSION]
    /\ has(s1, CONTRACT_VERSION_HISTORY) =>
           s1[CONTRACT_VERSION_HISTORY] = s2[CONTRACT_VERSION_HISTORY]

SameLastMigrationTime(s1, s2) ==
    /\ has(s1, LAST_MIGRATION_TIME) = has(s2, LAST_MIGRATION_TIME)
    /\ has(s1, LAST_MIGRATION_TIME) => s1[LAST_MIGRATION_TIME] = s2[LAST_MIGRATION_TIME]

Min(a, b) == IF a <= b THEN a ELSE b

\* ------------------------------------------------------------------------
\* Claims
\* ------------------------------------------------------------------------

C2_RollbackRequiredLeftOnlyByReset ==
    (/\ last.op \in {"initialize", "migrate", "ensure_compatible"} \cup Queries
     /\ last.res # "pending"
     /\ MigStateOf(last.pre) = migration_state_to_u32("RollbackRequired")) =>
        /\ MigStateOf(store) = migration_state_to_u32("RollbackRequired")
        /\ SameVersionFacts(store, last.pre)

\* C3: an ensure_compatible(v) call made while the migration state is
\* RollbackRequired fails with RollbackFailed for every v, the stored
\* version included.
C3_RollbackStateBlocksCompatibility ==
    (/\ last.op = "ensure_compatible"
     /\ MigStateOf(last.pre) = migration_state_to_u32("RollbackRequired")) =>
        last.res = "RollbackFailed"

C3_Witness ==
    /\ last.op = "ensure_compatible"
    /\ MigStateOf(last.pre) = migration_state_to_u32("RollbackRequired")
    /\ has(last.pre, CONTRACT_VERSION)
    /\ last.exp = last.pre[CONTRACT_VERSION]
    /\ last.exp = frozenAt
    /\ last.res = "RollbackFailed"

\* C4: a successful initialize leaves a version record; a stored version is
\* > 0; no step removes or decreases it; it changes only in the step in
\* which a migrate returns success, and every such step strictly increases it.
MigrateSucceeds ==
    /\ Len(stack') < Len(stack)
    /\ last'.op = "migrate" /\ last'.res = "Ok"

VersionStep ==
    /\ (last'.op = "initialize" /\ last'.res = "Ok" /\ last' # last) =>
           has(store', CONTRACT_VERSION)
    /\ has(store, CONTRACT_VERSION) =>
           /\ has(store', CONTRACT_VERSION)
           /\ store'[CONTRACT_VERSION] >= store[CONTRACT_VERSION]
           /\ (store'[CONTRACT_VERSION] # store[CONTRACT_VERSION]) => MigrateSucceeds
           /\ MigrateSucceeds => store'[CONTRACT_VERSION] > store[CONTRACT_VERSION]

C5_NonIncreasingTargetRejected ==
    (last.op = "migrate" /\ last.to <= last.from) =>
        /\ last.res = "InvalidVersionNumber"
        /\ last.hook = "none"
        /\ store = last.pre

C5_Witness ==
    /\ last.op = "migrate"
    /\ last.from = 2 /\ last.to = 1
    /\ has(last.pre, CONTRACT_VERSION) /\ last.pre[CONTRACT_VERSION] = 2
    /\ MigStateOf(last.pre) = migration_state_to_u32("Complete")
    /\ last.res = "InvalidVersionNumber"

\* C6: a migrate call made while the migration state is InProgress does not
\* succeed, does not run its hook and leaves the storage as it was; when
\* to_version > from_version and from_version is the stored version, its
\* error is MigrationInProgress.
C6_MigrationExclusive ==
    (last.op = "migrate" /\ MigStateOf(last.pre) = migration_state_to_u32("InProgress")) =>
        /\ last.res \notin {"Ok", "pending"}
        /\ last.hook = "none"
        /\ store = last.pre
        /\ (/\ last.to > last.from
            /\ has(last.pre, CONTRACT_VERSION)
            /\ last.pre[CONTRACT_VERSION] = last.from) => last.res = "MigrationInProgress"

C6_Witness ==
    /\ last.op = "migrate"
    /\ MigStateOf(last.pre) = migration_state_to_u32("InProgress")
    /\ last.depth = 1
    /\ last.from = 1 /\ last.to = 2
    /\ last.pre[CONTRACT_VERSION] = 1
    /\ last.res = "MigrationInProgress"
    /\ stack # <<>>

\* C7: ensure_compatible(expected) returns the result of the ordered
\* decision: state InProgress -> MigrationInProgress; state RollbackRequired
\* -> RollbackFailed; no version record -> NotInitialized; stored version #
\* expected -> VersionMismatch; otherwise success.
C7_Decision(state, initialized, stored, expected) ==
    CASE state = 1 -> "MigrationInProgress"
      [] state # 1 /\ state = 3 -> "RollbackFailed"
      [] state \notin {1, 3} /\ ~initialized -> "NotInitialized"
      [] state \notin {1, 3} /\ initialized /\ stored # expected -> "VersionMismatch"
      [] OTHER -> "Ok"

C7_EnsureCompatibleDecision ==
    last.op = "ensure_compatible" =>
        last.res = C7_Decision(MigStateOf(last.pre), has(last.pre, CONTRACT_VERSION),
                               get_or(last.pre, CONTRACT_VERSION, 0), last.exp)

C7_Witness ==
    /\ last.op = "ensure_compatible"
    /\ MigStateOf(last.pre) = migration_state_to_u32("InProgress")
    /\ last.exp = last.pre[CONTRACT_VERSION]
    /\ last.res = "MigrationInProgress"
    /\ last.depth = 1

\* C8: no ensure_compatible call changes the storage, and every
\* ensure_compatible(v) call made with the contract steady at version v
\* (state None or Complete) succeeds.
C8_EnsureCompatiblePure ==
    last.op = "ensure_compatible" =>
        /\ store = last.pre
        /\ (/\ MigStateOf(last.pre) \in {migration_state_to_u32("None"),
                                         migration_state_to_u32("Complete")}
            /\ has(last.pre, CONTRACT_VERSION)
            /\ last.pre[CONTRACT_VERSION] = last.exp) => last.res = "Ok"

C8_Witness ==
    /\ last.op = "ensure_compatible"
    /\ MigStateOf(last.pre) = migration_state_to_u32("Complete")
    /\ last.pre[CONTRACT_VERSION] = 2
    /\ last.exp = 2
    /\ last.res = "Ok"
    /\ store = last.pre

\* C9: when reset_migration_state(admin) has just taken the contract out of
\* RollbackRequired, the next call ensure_compatible(old_version) succeeds,
\* old_version being the version stored before the failed migration.
EnsureAfterReset ==
    (/\ last.op = "reset_migration_state" /\ last.res = "Ok"
     /\ MigStateOf(last.pre) = migration_state_to_u32("RollbackRequired")
     /\ last'.op = "ensure_compatible"
     /\ last'.exp = frozenAt) => last'.res = "Ok"

C9_ResetClearsFreeze == [][EnsureAfterReset]_vars

\* After a failed migration and no successful one, state None is reached
\* only through reset_migration_state.
C9_Witness ==
    /\ last.op = "ensure_compatible"
    /\ last.res = "Ok"
    /\ frozenAt > 0
    /\ last.exp = frozenAt
    /\ migrations = 0
    /\ MigStateOf(store) = migration_state_to_u32("None")

\* C10: the history never holds more than 100 entries; after n successful
\* migrations since initialize it holds min(n, 100); its entries are the most
\* recent single-step transitions, newest first; at version 102, after 101
\* migrations from version 1, it holds the 100 transitions 2->3 ... 101->102.
C10_HistoryBound ==
    has(store, CONTRACT_VERSION_HISTORY) =>
        LET h == store[CONTRACT_VERSION_HISTORY]
            v == store[CONTRACT_VERSION]
        IN  /\ Len(h) <= 100
            /\ Len(h) = Min(migrations, 100)
            /\ migrations = v - 1
            /\ \A i \in 1..Len(h) : /\ h[i].to_version = v - (i - 1)
                                    /\ h[i].from_version = v - i
            /\ v = 102 => /\ Len(h) = 100
                          /\ h[1].from_version = 101 /\ h[1].to_version = 102
                          /\ h[100].from_version = 2 /\ h[100].to_version = 3

C10_Witness ==
    /\ has(store, CONTRACT_VERSION)
    /\ store[CONTRACT_VERSION] = 102
    /\ migrations = 101
    /\ Len(store[CONTRACT_VERSION_HISTORY]) = 100
    /\ store[CONTRACT_VERSION_HISTORY][100].from_version = 2
    /\ \A i \in 1..100 : store[CONTRACT_VERSION_HISTORY][i].from_version # 1

\* C11: each successful migrate places its new entry at index 0 and keeps
\* the entries already there, in their order, behind it; an entry leaves the
\* history only from the tail, and only when the history held 100 entries;
\* no other step changes the history.
HistoryStep ==
    has(store, CONTRACT_VERSION_HISTORY) =>
        LET h == store[CONTRACT_VERSION_HISTORY]
            g == store'[CONTRACT_VERSION_HISTORY]
        IN  /\ has(store', CONTRACT_VERSION_HISTORY)
            /\ g # h => MigrateSucceeds
            /\ MigrateSucceeds =>
                   /\ g # <<>>
                   /\ g[1].from_version = last'.from /\ g[1].to_version = last'.to
                   /\ Tail(g) = IF Len(h) >= 100 THEN SubSeq(h, 1, 99) ELSE h

C11_HistoryNewestFirst == [][HistoryStep]_vars

C11_Witness ==
    /\ last.op = "migrate" /\ last.res = "Ok"
    /\ Len(last.pre[CONTRACT_VERSION_HISTORY]) = 100
    /\ Len(store[CONTRACT_VERSION_HISTORY]) = 100
    /\ store[CONTRACT_VERSION_HISTORY][1].to_version = store[CONTRACT_VERSION]
    /\ Tail(store[CONTRACT_VERSION_HISTORY]) = SubSeq(last.pre[CONTRACT_VERSION_HISTORY], 1, 99)
    /\ last.pre[CONTRACT_VERSION_HISTORY][100] \notin
           {store[CONTRACT_VERSION_HISTORY][i] : i \in 1..100}

\* C12: a migrate(from, to, migrator) call with to > from, from the stored
\* version and the state not InProgress runs its hook; when the hook returns
\* Ok, migrate returns success and the stored version is to, history[0] is
\* {from, to, migrator, current ledger timestamp, success = TRUE},
\* last-migration-time is the current ledger timestamp and the state is
\* Complete.
MigrateStartStep ==
    (/\ last'.op = "migrate" /\ last' # last
     /\ Len(stack') >= Len(stack)
     /\ last'.to > last'.from
     /\ has(store, CONTRACT_VERSION) /\ store[CONTRACT_VERSION] = last'.from
     /\ MigStateOf(store) # migration_state_to_u32("InProgress")) =>
        /\ last'.res = "pending"
        /\ Len(stack') = Len(stack) + 1

MigrateSuccessStep ==
    (Len(stack') < Len(stack) /\ last'.op = "migrate" /\ last'.hook = "Ok") =>
        /\ last'.res = "Ok"
        /\ store'[CONTRACT_VERSION] = last'.to
        /\ store'[CONTRACT_VERSION_HISTORY] # <<>>
        /\ LET e == store'[CONTRACT_VERSION_HISTORY][1]
           IN  /\ e.from_version = last'.from
               /\ e.to_version = last'.to
               /\ e.migrated_by = last'.by
               /\ e.migration_timestamp = now
               /\ e.success = TRUE
        /\ store'[LAST_MIGRATION_TIME] = now
        /\ MigStateOf(store') = migration_state_to_u32("Complete")

C12_SuccessfulMigration == [][MigrateStartStep /\ MigrateSuccessStep]_vars

C12_Witness ==
    /\ last.op = "migrate" /\ last.res = "Ok" /\ last.hook = "Ok"
    /\ last.from = 1 /\ last.to = 3 /\ last.by = "other"
    /\ store[CONTRACT_VERSION] = 3
    /\ store[CONTRACT_VERSION_HISTORY][1].migrated_by = "other"
    /\ store[CONTRACT_VERSION_HISTORY][1].migration_timestamp = 2
    /\ last.pre[LAST_MIGRATION_TIME] = 0
    /\ store[LAST_MIGRATION_TIME] = 2
    /\ now = 2

\* C13: migrate decides its error by the first failing precondition, in the
\* order to_version <= from_version -> InvalidVersionNumber; stored version
\* # from_version -> VersionMismatch; state InProgress ->
\* MigrationInProgress; and a migrate(f, t) repeated right after it succeeded
\* fails with VersionMismatch.
C13_Order ==
    last.op = "migrate" =>
        LET initialized == has(last.pre, CONTRACT_VERSION)
            stored == get_or(last.pre, CONTRACT_VERSION, 0)
            inProgress == MigStateOf(last.pre) = migration_state_to_u32("InProgress")
        IN  /\ last.to <= last.from => last.res = "InvalidVersionNumber"
            /\ (last.to > last.from /\ initialized /\ stored # last.from) =>
                   last.res = "VersionMismatch"
            /\ (last.to > last.from /\ initialized /\ stored = last.from /\ inProgress) =>
                   last.res = "MigrationInProgress"
            /\ (last.hook = "none" /\ last.res = "VersionMismatch") =>
                   (last.to > last.from /\ stored # last.from)
            /\ (last.hook = "none" /\ last.res = "MigrationInProgress") =>
                   (last.to > last.from /\ stored = last.from /\ inProgress)

StaleRepeatStep ==
    (/\ last.op = "migrate" /\ last.res = "Ok"
     /\ last'.op = "migrate" /\ last' # last
     /\ last'.from = last.from /\ last'.to = last.to) => last'.res = "VersionMismatch"

C13_PreconditionOrder == []C13_Order /\ [][StaleRepeatStep]_vars

C13_Witness ==
    /\ last.op = "migrate"
    /\ MigStateOf(last.pre) = migration_state_to_u32("InProgress")
    /\ last.pre[CONTRACT_VERSION] = 2
    /\ last.from = 1 /\ last.to = 2
    /\ last.res = "VersionMismatch"
    /\ Len(last.pre[CONTRACT_VERSION_HISTORY]) = 1
    /\ last.pre[CONTRACT_VERSION_HISTORY][1].from_version = 1
    /\ last.pre[CONTRACT_VERSION_HISTORY][1].to_version = 2

\* C14: initialize(v) with v > 0 on a contract without a version record
\* succeeds and leaves exactly: version v, an empty history, state None and
\* last-migration-time = the current ledger timestamp.
InitializeStep ==
    (/\ last'.op = "initialize" /\ last' # last
     /\ ~has(store, CONTRACT_VERSION)
     /\ last'.to > 0) =>
        /\ last'.res = "Ok"
        /\ DOMAIN store' = {CONTRACT_VERSION, CONTRACT_VERSION_HISTORY,
                            MIGRATION_STATE, LAST_MIGRATION_TIME}
        /\ store'[CONTRACT_VERSION] = last'.to
        /\ store'[CONTRACT_VERSION_HISTORY] = <<>>
        /\ store'[MIGRATION_STATE] = 0
        /\ store'[LAST_MIGRATION_TIME] = now
        /\ current_version(store').val = last'.to
        /\ Len(version_history(store').val) = 0

C14_InitializeEffect == [][InitializeStep]_vars

C14_Witness ==
    /\ last.op = "initialize" /\ last.res = "Ok"
    /\ last.to = 3
    /\ ~has(last.pre, CONTRACT_VERSION)
    /\ store[CONTRACT_VERSION] = 3
    /\ store[CONTRACT_VERSION_HISTORY] = <<>>
    /\ store[LAST_MIGRATION_TIME] = 2
    /\ now = 2

\* C15: initialize on a contract with a version record fails with
\* NotInitialized, also for initial_version 0; on a contract without one and
\* initial_version 0 it fails with InvalidVersionNumber; both leave the
\* storage as it was.  A successful initialize starts without a version
\* record, and no step removes the record, so initialize succeeds at most once.
C15_Rejected ==
    last.op = "initialize" =>
        /\ has(last.pre, CONTRACT_VERSION) =>
               (last.res = "NotInitialized" /\ store = last.pre)
        /\ (~has(last.pre, CONTRACT_VERSION) /\ last.to = 0) =>
               (last.res = "InvalidVersionNumber" /\ store = last.pre)
        /\ last.res = "Ok" => ~has(last.pre, CONTRACT_VERSION)

VersionRecordKept == has(store, CONTRACT_VERSION) => has(store', CONTRACT_VERSION)

C15_InitializeOnce == []C15_Rejected /\ [][VersionRecordKept]_vars

C15_Witness ==
    /\ last.op = "initialize"
    /\ has(last.pre, CONTRACT_VERSION)
    /\ last.to = 0
    /\ last.res = "NotInitialized"
    /\ migrations = 1
    /\ store = last.pre

\* C16: on a contract with no version record, current_version,
\* version_info, version_history, ensure_compatible(v) for every v and
\* migrate(f, t) for every t > f fail with NotInitialized and leave the
\* storage as it was.
C16_UninitializedRejected ==
    (/\ ~has(last.pre, CONTRACT_VERSION)
     /\ \/ last.op \in Queries
        \/ last.op = "ensure_compatible"
        \/ last.op = "migrate" /\ last.to > last.from) =>
        /\ last.res = "NotInitialized"
        /\ store = last.pre

C16_Witness ==
    /\ last.op = "migrate"
    /\ last.from = 1 /\ last.to = 2
    /\ has(last.pre, MIGRATION_STATE)
    /\ ~has(last.pre, CONTRACT_VERSION)
    /\ last.res = "NotInitialized"
    /\ store = last.pre

\* C17 (as claimed): reset_migration_state attempted by a principal that is
\* not the contract's admin fails (with UnauthorizedUpgrade; the host's
\* abort of an unauthenticated call is counted as failing too) and leaves
\* the migration state as it was.
C17_ResetAdminOnly ==
    (last.op = "reset_migration_state" /\ last.by # "admin") =>
        /\ last.res \in {"UnauthorizedUpgrade", "HostAbort"}
        /\ MigStateOf(store) = MigStateOf(last.pre)

\* C18: an authorized reset_migration_state sets the migration state to None
\* from every prior state (None, InProgress, Complete, RollbackRequired) and
\* leaves the stored version, the history list and the last-migration-time
\* as they were.
C18_ResetEffect ==
    (last.op = "reset_migration_state" /\ last.res = "Ok") =>
        /\ has(store, MIGRATION_STATE)
        /\ store[MIGRATION_STATE] = migration_state_to_u32("None")
        /\ SameVersionFacts(store, last.pre)
        /\ SameLastMigrationTime(store, last.pre)

\* The reset that ran inside a hook, from state InProgress, after an earlier
\* migration had set the last-migration-time.
C18_Witness ==
    /\ last.op = "reset_migration_state" /\ last.res = "Ok"
    /\ MigStateOf(last.pre) = migration_state_to_u32("InProgress")
    /\ has(last.pre, LAST_MIGRATION_TIME) /\ last.pre[LAST_MIGRATION_TIME] > 0
    /\ version_history(last.pre).val # <<>>
    /\ MigStateOf(store) = migration_state_to_u32("None")

\* While a hook runs, the stored state is InProgress and the stored version
\* is the from_version of the running migrate; ensure_compatible called by
\* the hook returns MigrationInProgress.
DuringHook ==
    /\ stack # <<>> =>
           /\ MigStateOf(store) = migration_state_to_u32("InProgress")
           /\ current_version(store).ok
           /\ current_version(store).val = stack[Len(stack)].from_version
           /\ SameVersionFacts(store, stack[Len(stack)].pre)
    /\ (last.op = "ensure_compatible" /\ last.depth >= 1) =>
           last.res = "MigrationInProgress"

\* The step that ends a successful migrate: the call started in None or
\* Complete, the state was InProgress until now and is Complete after.
SuccessSequenceStep ==
    (stack # <<>> /\ last'.op = "migrate" /\ last'.res = "Ok"
     /\ Len(stack') < Len(stack)) =>
        /\ MigStateOf(last'.pre) \in {migration_state_to_u32("None"),
                                      migration_state_to_u32("Complete")}
        /\ MigStateOf(store) = migration_state_to_u32("InProgress")
        /\ MigStateOf(store') = migration_state_to_u32("Complete")
        /\ store'[CONTRACT_VERSION] = last'.to

\* C19 (as claimed): during hook execution the stored state is InProgress
\* and the stored version is still from_version, an ensure_compatible call
\* made from inside the hook fails with MigrationInProgress, and on success
\* the state sequence is (None or Complete) -> InProgress -> Complete.
C19_HookSeesInFlightMarker == []DuringHook /\ [][SuccessSequenceStep]_vars

\* A migrate call made by a running hook whose arguments pass the version
\* preconditions is rejected with MigrationInProgress and writes nothing.
NestedMigrateRejected ==
    (/\ last.op = "migrate" /\ last.depth >= 1
     /\ last.to > last.from
     /\ has(last.pre, CONTRACT_VERSION)
     /\ last.pre[CONTRACT_VERSION] = last.from) =>
        /\ last.res = "MigrationInProgress"
        /\ last.hook = "none"
        /\ store = last.pre

\* The outer hook returns right after its nested migrate was rejected: the
\* outer migrate ends by the returned value alone.
OuterOutcomeStep ==
    (/\ stack # <<>>
     /\ last.op = "migrate" /\ last.depth = Len(stack)
     /\ last.res = "MigrationInProgress"
     /\ Len(stack') = Len(stack) - 1
     /\ last'.hook # "abort") =>
        /\ last'.op = "migrate" /\ last'.depth = Len(stack) - 1
        /\ last'.hook = "Ok" =>
               /\ last'.res = "Ok"
               /\ MigStateOf(store') = migration_state_to_u32("Complete")
               /\ store'[CONTRACT_VERSION] = last'.to
        /\ last'.hook # "Ok" =>
               /\ last'.hook \in HookErrors
               /\ last'.res = last'.hook
               /\ MigStateOf(store') = migration_state_to_u32("RollbackRequired")
               /\ SameVersionFacts(store', last'.pre)

AbortAtomic ==
    last.hook = "abort" =>
        /\ store = last.pre
        /\ stack = <<>>
        /\ SameVersionFacts(store, last.pre)
        /\ SameLastMigrationTime(store, last.pre)
        /\ MigStateOf(store) = MigStateOf(last.pre)
        /\ MigStateOf(store) # migration_state_to_u32("InProgress")

\* State RollbackRequired is entered by a migrate whose hook returned an
\* error (an abort only restores a RollbackRequired that was there before).
RollbackRequiredEntered ==
    (/\ MigStateOf(store') = migration_state_to_u32("RollbackRequired")
     /\ MigStateOf(store) # migration_state_to_u32("RollbackRequired")) =>
        \/ /\ last'.op = "migrate"
           /\ last'.hook \in HookErrors
           /\ last'.res = last'.hook
        \/ /\ last'.hook = "abort"
           /\ MigStateOf(last'.pre) = migration_state_to_u32("RollbackRequired")

\* C21: if the hook terminates abruptly (host abort) instead of returning a
\* value, the whole migrate call is rolled back: version, history,
\* last-migration-time and migration state equal their pre-call values, and
\* the abort leaves neither InProgress nor a new RollbackRequired;
\* RollbackRequired is reached only through a hook that returns an error.
C21_HostAbortAtomic == []AbortAtomic /\ [][RollbackRequiredEntered]_vars

\* The hook of migrate(1, 2) was aborted: the state InProgress it saw is gone.
C21_Witness ==
    /\ last.op = "migrate" /\ last.hook = "abort" /\ last.res = "HostAbort"
    /\ last.from = 1 /\ last.to = 2
    /\ has(last.pre, CONTRACT_VERSION) /\ last.pre[CONTRACT_VERSION] = 1
    /\ MigStateOf(store) = migration_state_to_u32("None")
    /\ store = last.pre

\* The storage s with its migration state replaced by None.
AsNone(s) == set(s, MIGRATION_STATE, migration_state_to_u32("None"))

\* In state Complete every ensure_compatible and every start of a migrate
\* gives what it gives in state None at the same version.
CompleteAsNone ==
    MigStateOf(store) = migration_state_to_u32("Complete") =>
        /\ \A v \in Versions :
               ensure_compatible(store, v) = ensure_compatible(AsNone(store), v)
        /\ \A f \in Versions, t \in Versions :
               /\ migrate_preconditions(store, f, t) =
                      migrate_preconditions(AsNone(store), f, t)
               /\ migrate_begin(store) = migrate_begin(AsNone(store))

\* The call that follows a successful migrate(v, w), no reset in between.
AfterSuccessStep ==
    (/\ last.op = "migrate" /\ last.res = "Ok"
     /\ MigStateOf(store) = migration_state_to_u32("Complete")) =>
        /\ (last'.op = "ensure_compatible" /\ last'.exp = last.to) => last'.res = "Ok"
        /\ (last'.op = "ensure_compatible" /\ last'.exp = last.from) =>
               last'.res = "VersionMismatch"
        /\ (last'.op = "migrate" /\ last'.from = last.to /\ last'.to > last'.from) =>
               /\ last'.res = "pending"
               /\ MigStateOf(store') = migration_state_to_u32("InProgress")

\* Two successful migrations in a row since initialize(1).
SequentialUpgrades ==
    (/\ last.op = "migrate" /\ last.res = "Ok"
     /\ last.from = 2 /\ last.to = 3
     /\ migrations = 2
     /\ version_history(store).val[2].from_version = 1) =>
        /\ store[CONTRACT_VERSION] = 3
        /\ Len(version_history(store).val) = 2
        /\ MigStateOf(store) = migration_state_to_u32("Complete")

\* C22: in state Complete, ensure_compatible and migrate give the same
\* results as in state None with the same stored version; after a
\* successful migrate(v, w), ensure_compatible(w) succeeds,
\* ensure_compatible(v) fails with VersionMismatch and a further
\* migrate(w, x), x > w, starts and succeeds without any reset (1 -> 2 -> 3
\* leaves version 3 and two history entries).
C22_CompleteIsSteadyState ==
    /\ [](CompleteAsNone /\ SequentialUpgrades)
    /\ [][AfterSuccessStep]_vars

\* Version 3 reached by migrate(1, 2) then migrate(2, 3), the second started
\* in state Complete.
C22_Witness ==
    /\ last.op = "migrate" /\ last.res = "Ok"
    /\ last.from = 2 /\ last.to = 3
    /\ MigStateOf(last.pre) = migration_state_to_u32("Complete")
    /\ migrations = 2
    /\ store[CONTRACT_VERSION] = 3
    /\ Len(version_history(store).val) = 2
    /\ version_history(store).val[2].from_version = 1
    /\ version_history(store).val[2].to_version = 2

\* The step in which a migrate returns its hook's error: CONFIG stays as the
\* hook left it, the version facts are those before the call.
HookErrorKeepsWrites ==
    (/\ stack # <<>>
     /\ Len(stack') < Len(stack)
     /\ last'.hook \in HookErrors) =>
        /\ has(store', CONFIG) = has(store, CONFIG)
        /\ has(store, CONFIG) => store'[CONFIG] = store[CONFIG]
        /\ SameVersionFacts(store', last'.pre)
        /\ MigStateOf(store') = migration_state_to_u32("RollbackRequired")

C24_VersionInfoView ==
    (last.op = "version_info" /\ has(last.pre, CONTRACT_VERSION)) =>
        /\ last.res = "Ok"
        /\ store = last.pre
        /\ has(store, CONTRACT_VERSION_HISTORY)
        /\ has(store, LAST_MIGRATION_TIME)
        /\ has(store, MIGRATION_STATE)
        /\ version_info(store).ok
        /\ version_info(store).val =
               [current_version |-> store[CONTRACT_VERSION],
                migration_count |-> Len(store[CONTRACT_VERSION_HISTORY]),
                last_migration_time |-> store[LAST_MIGRATION_TIME],
                migration_state |-> store[MIGRATION_STATE]]

\* version_info called by the hook of a second migration, at a later time.
C24_Witness ==
    /\ last.op = "version_info" /\ last.res = "Ok"
    /\ last.depth = 1
    /\ store[CONTRACT_VERSION] = 2
    /\ Len(store[CONTRACT_VERSION_HISTORY]) = 1
    /\ store[LAST_MIGRATION_TIME] = 2
    /\ store[MIGRATION_STATE] = migration_state_to_u32("InProgress")

\* C25 (as claimed): version_info().migration_count equals the number of
\* successful migrate calls since initialize, after every sequence of calls,
\* also after more than 100 successful migrations.
C25_MigrationCountIsTotal ==
    version_info(store).ok => version_info(store).val.migration_count = migrations

\* The last-migration-time over one step: a successful initialize or migrate
\* stores the ledger timestamp, every other step keeps the stored value.
LastMigrationTimeStep ==
    /\ (last' # last /\ last'.op = "initialize" /\ last'.res = "Ok") =>
           /\ has(store', LAST_MIGRATION_TIME)
           /\ store'[LAST_MIGRATION_TIME] = now
    /\ has(store, LAST_MIGRATION_TIME) =>
           /\ has(store', LAST_MIGRATION_TIME)
           /\ store'[LAST_MIGRATION_TIME] >= store[LAST_MIGRATION_TIME]
           /\ IF MigrateSucceeds
              THEN store'[LAST_MIGRATION_TIME] = now
              ELSE store'[LAST_MIGRATION_TIME] = store[LAST_MIGRATION_TIME]
    /\ (~has(store, LAST_MIGRATION_TIME) /\ has(store', LAST_MIGRATION_TIME)) =>
           (last'.op = "initialize" /\ last'.res = "Ok")

\* The stored time is a ledger time that has been.
LastMigrationTimePast ==
    has(store, LAST_MIGRATION_TIME) => store[LAST_MIGRATION_TIME] <= now

\* C26: last_migration_time equals the ledger timestamp of the most recent
\* successful migrate, or of initialize when no migrate has succeeded yet:
\* every successful migrate sets it to the current ledger timestamp; a
\* migrate that is rejected or whose hook fails, reset_migration_state,
\* ensure_compatible and the queries leave it unchanged; under a
\* non-decreasing ledger clock it never decreases.
C26_LastMigrationTime == []LastMigrationTimePast /\ [][LastMigrationTimeStep]_vars

\* Initialized at time 0, migrated at time 1, and a hook failure at time 2
\* that left the time at 1.
C26_Witness ==
    /\ last.op = "migrate" /\ last.hook \in HookErrors
    /\ now = 2
    /\ migrations = 1
    /\ store[LAST_MIGRATION_TIME] = 1
    /\ store[CONTRACT_VERSION_HISTORY][1].migration_timestamp = 1

\* A run of compose_hooks(first, second), told by what first and second do
\* on their own.
ComposedAsSequence(first, second) ==
    RunComposedHook(first, second) =>
        LET a == run_hook(first, store)
            b == run_hook(second, a.store)
        IN  /\ a.res # "Ok" => (last'.res = a.res /\ store' = a.store)
            /\ (a.res = "Ok" /\ b.res # "Ok") => (last'.res = b.res /\ store' = b.store)
            /\ last'.res = "Ok" <=> (a.res = "Ok" /\ b.res = "Ok")
            /\ last'.res = "Ok" => store' = b.store

\* C27: compose_hooks(first, second) yields a hook that runs first and then
\* second: if first returns an error, second is not run and that error is
\* returned; if first succeeds and second returns an error, that error is
\* returned; the composed hook succeeds exactly when both succeed, having
\* run first before second.
C27_ComposeHooks ==
    [][\A first \in HookKinds, second \in HookKinds : ComposedAsSequence(first, second)]_vars

\* compose_hooks(store_config_v1, migrate_v1_to_v2) succeeded on a storage
\* without CONFIG, which the two hooks in the other order cannot do.
C27_Witness ==
    /\ last.op = "compose_hooks" /\ last.res = "Ok"
    /\ ~has(last.pre, CONFIG)
    /\ has(store, CONFIG) /\ store[CONFIG] = "V2"
    /\ run_hook("migrate_v1_to_v2", last.pre).res = "SchemaValidationFailed"

\* One facade call, told by the VersionManager operation it forwards to.
FacadeForwards ==
    /\ (last' # last /\ last'.op = "UpgradeableContract::initialize") =>
           /\ store' = initialize(store, 1, now).store
           /\ last'.res = initialize(store, 1, now).res
    /\ (last' # last /\ last'.op = "UpgradeableContract::initialize_with_version") =>
           /\ store' = initialize(store, last'.to, now).store
           /\ last'.res = initialize(store, last'.to, now).res
    /\ (last' # last /\ last'.op = "UpgradeableContract::ensure_version_compatible") =>
           /\ store' = store
           /\ last'.res = ensure_compatible(store, last'.exp)
    /\ (last' # last /\ last'.op = "UpgradeableContract::query") =>
           /\ store' = store
           /\ last'.res = QueryResult(last'.hook, store)
           /\ upgradeable_current_version(store) = current_version(store)
           /\ upgradeable_version_info(store) = version_info(store)
           /\ upgradeable_version_history(store) = version_history(store)
    /\ (last' # last /\ last'.op = "UpgradeableContract::upgrade") =>
           LET chk == migrate_preconditions(store, last'.from, last'.to)
           IN  IF chk # "Ok"
               THEN /\ last'.res = chk
                    /\ store' = store /\ stack' = stack
               ELSE /\ last'.res = "pending"
                    /\ store' = migrate_begin(store)
                    /\ stack' = Append(stack, [from_version |-> last'.from,
                                               to_version |-> last'.to,
                                               migrator |-> last'.by,
                                               pre |-> store])
    /\ (last' # last /\ last'.op = "UpgradeableContract::reset_migration_state"
        /\ last'.res = "Ok") =>
           store' = reset_migration_state(store)

\* C28: the UpgradeableContract facade adds no behaviour: initialize has the
\* result and effect of VersionManager::initialize(1), and
\* initialize_with_version, ensure_version_compatible, upgrade,
\* current_version, version_info, version_history and reset_migration_state
\* return the same result and make the same state change as the
\* VersionManager operation they forward to, from every state and for every
\* argument.
C28_FacadeForwards == [][FacadeForwards]_vars

\* Through the facade alone: initialize gave version 1 and upgrade(1, 2)
\* completed.
C28_Witness ==
    /\ last.op = "migrate" /\ last.res = "Ok"
    /\ last.from = 1 /\ last.to = 2
    /\ store[CONTRACT_VERSION] = 2
    /\ Len(store[CONTRACT_VERSION_HISTORY]) = 1

\* C29: for each of the four states s,
\* u32_to_migration_state(migration_state_to_u32(s)) = s, with codes None=0,
\* InProgress=1, Complete=2, RollbackRequired=3; every code greater than 3
\* is rejected with InvalidVersionNumber.
C29_StateCodesRoundTrip ==
    /\ last.op = "migration_state_to_u32" =>
           /\ last.exp = (CASE last.hook = "None" -> 0
                            [] last.hook = "InProgress" -> 1
                            [] last.hook = "Complete" -> 2
                            [] last.hook = "RollbackRequired" -> 3)
           /\ last.res = "Ok"
           /\ u32_to_migration_state(last.exp) = Ok(last.hook)
    /\ last.op = "u32_to_migration_state" =>
           /\ last.exp > 3 => (last.res = "InvalidVersionNumber" /\ last.hook = "none")
           /\ last.exp <= 3 =>
                  /\ last.res = "Ok"
                  /\ last.hook \in MigrationState
                  /\ migration_state_to_u32(last.hook) = last.exp

\* RollbackRequired went to 3 and back; 99 (the code of the test) is no state.
C29_Witness ==
    /\ last.op = "migration_state_to_u32"
    /\ last.hook = "RollbackRequired" /\ last.exp = 3
    /\ last.res = "Ok"
    /\ u32_to_migration_state(3) = Ok("RollbackRequired")
    /\ u32_to_migration_state(99) = Err("InvalidVersionNumber")

\* C30: in the treasury reference integration, after initialize and
\* deposits, a successful upgrade(2) leaves get_version() = 2, the migration
\* history with exactly one entry (1 -> 2) and the treasury funds (BALANCE,
\* TOTAL_FEES) equal to their values before the upgrade.
C30_TreasuryUpgrade ==
    (/\ last.op = "migrate" /\ last.res = "Ok"
     /\ last.from = 1 /\ last.to = 2) =>
        /\ upgradeable_current_version(store) = Ok(2)
        /\ Len(version_history(store).val) = 1
        /\ version_history(store).val[1].from_version = 1
        /\ version_history(store).val[1].to_version = 2
        /\ has(store, BALANCE) /\ has(last.pre, BALANCE)
        /\ store[BALANCE] = last.pre[BALANCE]
        /\ has(store, TOTAL_FEES) /\ has(last.pre, TOTAL_FEES)
        /\ store[TOTAL_FEES] = last.pre[TOTAL_FEES]

\* upgrade(2) succeeded on a treasury holding deposited fees.
C30_Witness ==
    /\ last.op = "migrate" /\ last.res = "Ok"
    /\ last.from = 1 /\ last.to = 2
    /\ last.pre[CONFIG] = "V1" /\ store[CONFIG] = "V2"
    /\ store[BALANCE] = 3
    /\ store[TOTAL_FEES] = 0
    /\ store[CONTRACT_VERSION] = 2

\* C31: for a global pause activated with max_duration_seconds d > 0 at ledger
\* time t0, while the ledger time is below t0 + d is_emergency_paused is true
\* and validate_not_paused fails; once the ledger time is at or past t0 + d,
\* is_emergency_paused returns false and validate_not_paused(None) succeeds,
\* with no deactivate call.
C31_ExpiryLiftsPause ==
    (/\ has(store, EMERGENCY_PAUSE_CONFIG)
     /\ PauseConfigOf(store).is_emergency_paused
     /\ PauseConfigOf(store).max_duration_seconds > 0)
    => LET t0 == PauseConfigOf(store).pause_timestamp
           d == PauseConfigOf(store).max_duration_seconds
       IN  IF now < t0 + d
           THEN /\ is_emergency_paused(store)
                /\ validate_not_paused(store, "None", now).res # "Ok"
           ELSE /\ ~is_emergency_paused(store)
                /\ validate_not_paused(store, "None", now).res = "Ok"

\* The outcome the gate is claimed to give for function_name in storage s:
\* Paused under the global pause, else FunctionPaused for a listed name, else Ok.
GateOutcome(s, function_name) ==
    IF get_or(s, EMERGENCY_PAUSE_CONFIG, DefaultPauseConfig).is_emergency_paused
    THEN "Paused"
    ELSE IF /\ function_name # "None"
            /\ Contains(get_or(s, EMERGENCY_PAUSE_CONFIG, DefaultPauseConfig).paused_functions,
                        function_name)
    THEN "FunctionPaused"
    ELSE "Ok"

GateAgrees(s, t) ==
    \A f \in FunctionNames \cup {"None"} :
        validate_not_paused(s, f, t).res = GateOutcome(s, f)

\* A successful pause_functions(F) lists every name of F and a successful
\* unpause_functions(F) removes every name of F; the other names stay as they were.
SelectiveListStep ==
    /\ (last'.op = "pause_functions" /\ last'.res = "Ok")
        => \A f \in FunctionNames :
            Contains(PauseConfigOf(store').paused_functions, f)
            <=> (\/ Contains(last'.functions, f)
                 \/ Contains(PauseConfigOf(last'.pre).paused_functions, f))
    /\ (last'.op = "unpause_functions" /\ last'.res = "Ok")
        => \A f \in FunctionNames :
            Contains(PauseConfigOf(store').paused_functions, f)
            <=> (/\ ~Contains(last'.functions, f)
                 /\ Contains(PauseConfigOf(last'.pre).paused_functions, f))
    /\ last'.op = "validate_not_paused"
        => /\ store' = last'.pre
           /\ last'.res = validate_not_paused(last'.pre, last'.function_name, now).res

\* C32 as stated: validate_not_paused(f) fails with Paused for every name f and
\* for None whenever the global pause is active; otherwise it fails with
\* FunctionPaused exactly for the names in the selective pause list and succeeds
\* for every other name and for None.
C32_PauseGate ==
    last.op = "validate_not_paused"
    => /\ last.res = GateOutcome(last.pre, last.function_name)
       /\ GateAgrees(store, now)

\* C32, amended: on a contract whose pause configuration has been initialized,
\* validate_not_paused(f) fails with Paused for every name f and for None whenever
\* the global pause is active; otherwise it fails with FunctionPaused exactly for
\* the names in the selective pause list (added by pause_functions and not since
\* removed by unpause_functions) and succeeds for every other name and for None.
C32_PauseGateInitialized ==
    /\ [](has(store, EMERGENCY_PAUSE_CONFIG) => GateAgrees(store, now))
    /\ [][SelectiveListStep]_vars

C32_Witness ==
    /\ last.op = "validate_not_paused"
    /\ last.function_name = "renew_policy"
    /\ last.res = "FunctionPaused"
    /\ ~PauseConfigOf(store).is_emergency_paused
    /\ validate_not_paused(store, "issue_policy", now).res = "Ok"
    /\ validate_not_paused(store, "None", now).res = "Ok"
    /\ \E i \in 1..Len(PauseHistoryOf(store)) :
        PauseHistoryOf(store)[i].action = "selective_unpause"

GloballyPaused(s) ==
    get_or(s, EMERGENCY_PAUSE_CONFIG, DefaultPauseConfig).is_emergency_paused

\* The last three recorded events are pause_functions(F), activate_emergency_pause
\* and deactivate_emergency_pause, in this order.
PausedActivatedDeactivated(s) ==
    LET h == PauseHistoryOf(s)
        n == Len(h)
    IN  /\ n >= 3
        /\ h[n - 2].action = "selective_pause"
        /\ h[n - 1].action = "emergency_pause"
        /\ h[n].action = "emergency_unpause"

ActivateEmptiesList ==
    /\ (last.op = "activate_emergency_pause" /\ last.res = "Ok")
        => PauseConfigOf(store).paused_functions = <<>>
    /\ PausedActivatedDeactivated(store)
        => \A f \in FunctionNames :
            Contains(PauseHistoryOf(store)[Len(PauseHistoryOf(store)) - 2].affected_functions, f)
            => ~is_function_paused(store, f)

ActivateWhenPausedRejected ==
    (last.op = "activate_emergency_pause" /\ GloballyPaused(last.pre))
    => (last.res = "InvalidState" /\ store = last.pre)

\* C39 as stated: activate_emergency_pause empties the selective pause list, so
\* after pause_functions(F), activate and deactivate, is_function_paused(f) is
\* false for every f in F; activate on a globally paused contract and deactivate
\* on a contract that is not globally paused fail with InvalidState and change
\* nothing.
C39_ActivateClearsSelective ==
    /\ ActivateEmptiesList
    /\ ActivateWhenPausedRejected
    /\ (last.op = "deactivate_emergency_pause" /\ ~GloballyPaused(last.pre))
        => (last.res = "InvalidState" /\ store = last.pre)

\* C39, amended: activate_emergency_pause empties the selective pause list, so
\* after pause_functions(F), activate and deactivate, is_function_paused(f) is
\* false for every f in F; activate on a globally paused contract and deactivate
\* on an initialized contract that is not globally paused fail with InvalidState
\* and change nothing.
C39_ActivateClearsSelectiveInitialized ==
    /\ ActivateEmptiesList
    /\ ActivateWhenPausedRejected
    /\ (/\ last.op = "deactivate_emergency_pause"
        /\ has(last.pre, EMERGENCY_PAUSE_CONFIG)
        /\ ~GloballyPaused(last.pre))
        => (last.res = "InvalidState" /\ store = last.pre)

C39_Witness ==
    /\ last.op = "deactivate_emergency_pause"
    /\ last.res = "Ok"
    /\ PausedActivatedDeactivated(store)
    /\ PauseHistoryOf(store)[1].affected_functions = <<"renew_policy", "renew_policy">>
    /\ ~is_function_paused(store, "renew_policy")
    /\ PauseConfigOf(store).paused_functions = <<>>

PreconditionErrors ==
    {"InvalidVersionNumber", "NotInitialized", "VersionMismatch", "MigrationInProgress"}

\* migrate(from_version, to_version) called on storage s fails a precondition.
FailsPrecondition(s, from_version, to_version) ==
    \/ to_version <= from_version
    \/ ~has(s, CONTRACT_VERSION)
    \/ s[CONTRACT_VERSION] # from_version
    \/ MigStateOf(s) = 1

\* A step in which migrate is called (no hook has returned yet in this call).
MigrateCalled == last'.op = "migrate" /\ last'.hook = "none"

RejectedMigrateStep ==
    (MigrateCalled /\ FailsPrecondition(store, last'.from, last'.to))
    => /\ last'.res \in PreconditionErrors
       /\ last'.pre = store
       /\ stack' = stack
       /\ store' = store
       /\ MigStateOf(store') = 3 => MigStateOf(store) = 3

\* C33: a migrate call rejected by a precondition (InvalidVersionNumber,
\* NotInitialized, VersionMismatch or MigrationInProgress) never invokes the hook
\* and leaves version, history, migration state and last-migration-time as they
\* were; a precondition failure never puts the contract into RollbackRequired.
C33_RejectedMigrateChangesNothing == [][RejectedMigrateStep]_vars

C33_Witness ==
    /\ last.op = "migrate"
    /\ last.hook = "none"
    /\ last.res = "MigrationInProgress"
    /\ FailsPrecondition(last.pre, last.from, last.to)
    /\ last.to > last.from
    /\ last.pre[CONTRACT_VERSION] = last.from
    /\ store = last.pre
    /\ Len(stack) = 1

\* No invocation is running and the stored migration state is not InProgress.
CommittedStateSettled ==
    stack = <<>> => MigStateOf(store) \in {0, 2, 3}

TopLevelReturned(op) == last.op = op /\ last.depth = 0 /\ last.res # "pending"

\* C34 as stated: after every top-level initialize, migrate,
\* reset_migration_state or ensure_compatible call has returned (hooks not
\* calling reset_migration_state), the stored migration state is None, Complete
\* or RollbackRequired, so a top-level ensure_compatible or migrate call never
\* returns MigrationInProgress.
C34_InProgressNeverCommitted ==
    /\ CommittedStateSettled
    /\ TopLevelReturned("ensure_compatible") => last.res # "MigrationInProgress"
    /\ TopLevelReturned("migrate") => last.res # "MigrationInProgress"

\* C34, amended: after every top-level call has returned (hooks not calling
\* reset_migration_state), the stored migration state is None, Complete or
\* RollbackRequired, so a top-level ensure_compatible call never returns
\* MigrationInProgress and a top-level migrate call returns it only as the
\* error its own hook returned.
C34_InProgressOnlyFromHook ==
    /\ CommittedStateSettled
    /\ TopLevelReturned("ensure_compatible") => last.res # "MigrationInProgress"
    /\ (TopLevelReturned("migrate") /\ last.res = "MigrationInProgress")
        => (last.hook = "MigrationInProgress" /\ MigStateOf(store) = 3)

C34_Witness ==
    /\ TopLevelReturned("ensure_compatible")
    /\ last.res = "RollbackFailed"
    /\ stack = <<>>
    /\ MigStateOf(store) = 3
    /\ frozenAt = store[CONTRACT_VERSION]

StoredHistory(s) == get_or(s, CONTRACT_VERSION_HISTORY, <<>>)

HistoryChain(s) ==
    LET h == StoredHistory(s)
    IN  /\ \A i \in 1..Len(h) : h[i].success /\ h[i].to_version > h[i].from_version
        /\ h # <<>> => (has(s, CONTRACT_VERSION) /\ h[1].to_version = s[CONTRACT_VERSION])
        /\ \A i \in 1..(Len(h) - 1) : h[i].from_version = h[i + 1].to_version

\* A migrate call that returned an error left the history as it found it.
FailedAttemptStep ==
    (last'.op = "migrate" /\ last'.res \notin {"Ok", "pending"})
    => StoredHistory(store') = StoredHistory(last'.pre)

\* C35: in every reachable state (hooks that do not re-enter the engine), every
\* history entry has success = true and to_version > from_version; the newest
\* entry's to_version is the stored version; each entry's from_version is the
\* to_version of the entry before it in time. Failed attempts leave no entry.
C35_HistoryChain == []HistoryChain(store) /\ [][FailedAttemptStep]_vars

C35_Witness ==
    /\ Len(StoredHistory(store)) = MAX_VERSION_HISTORY
    /\ migrations > MAX_VERSION_HISTORY
    /\ last.op = "migrate"
    /\ last.res = "MigrationHookFailed"
    /\ StoredHistory(store)[1].to_version = store[CONTRACT_VERSION]
    /\ StoredHistory(store)[MAX_VERSION_HISTORY].from_version > 1

HistoryTimes(s) ==
    LET h == StoredHistory(s)
    IN  /\ h # <<>> => (/\ has(s, LAST_MIGRATION_TIME)
                        /\ h[1].migration_timestamp = s[LAST_MIGRATION_TIME])
        /\ \A i \in 1..(Len(h) - 1) :
            h[i].migration_timestamp >= h[i + 1].migration_timestamp

\* C36: whenever the history is non-empty, the newest entry's
\* migration_timestamp equals the stored last-migration-time, and under a
\* non-decreasing ledger clock the entries' timestamps are non-increasing from
\* the newest entry to the oldest.
C36_HistoryTimestamps == HistoryTimes(store)

C36_Witness ==
    /\ Len(StoredHistory(store)) >= 2
    /\ StoredHistory(store)[1].migration_timestamp > StoredHistory(store)[2].migration_timestamp
    /\ StoredHistory(store)[1].migration_timestamp = store[LAST_MIGRATION_TIME]
    /\ store[LAST_MIGRATION_TIME] = now
    /\ last.op = "migrate"
    /\ last.res = "Ok"

\* reset_migration_state returned Ok on a contract in RollbackRequired.
ResetFromRollbackRequired(call) ==
    call.op = "reset_migration_state" /\ call.res = "Ok" /\ MigStateOf(call.pre) = 3

RecoveryStep ==
    \* the reset clears the state and keeps version and history
    /\ ResetFromRollbackRequired(last')
        => (MigStateOf(store') = 0 /\ SameVersionFacts(store', last'.pre))
    \* the retry migrate(v, w) called right after the reset is accepted
    /\ (/\ ResetFromRollbackRequired(last)
        /\ has(store, CONTRACT_VERSION)
        /\ MigrateCalled
        /\ last'.pre = store
        /\ last'.from = store[CONTRACT_VERSION]
        /\ last'.to > last'.from)
        => (last'.res = "pending" /\ Len(stack') = 1)
    \* and when its hook returns Ok it ends Complete at w with one new entry
    /\ (/\ last'.op = "migrate"
        /\ last'.hook = "Ok"
        /\ last'.depth = 0
        /\ MigStateOf(last'.pre) = 0
        /\ frozenAt > 0
        /\ last'.from = frozenAt)
        => /\ last'.res = "Ok"
           /\ store'[CONTRACT_VERSION] = last'.to
           /\ MigStateOf(store') = 2
           /\ Len(StoredHistory(store')) = Len(StoredHistory(last'.pre)) + 1
           /\ StoredHistory(store')[1].from_version = frozenAt
           /\ StoredHistory(store')[1].to_version = last'.to
           /\ SubSeq(StoredHistory(store'), 2, Len(StoredHistory(store')))
                = StoredHistory(last'.pre)
           /\ \A i \in 1..Len(StoredHistory(store')) : StoredHistory(store')[i].success

\* C37: from RollbackRequired with stored version v, reset_migration_state
\* followed by migrate(v, w) with a succeeding hook and w > v succeeds and ends
\* in state Complete at version w, and the history gains exactly one entry
\* (v -> w) for the retry, with no trace of the failed attempt.
C37_RecoveryPath == [][RecoveryStep]_vars

C37_Witness ==
    /\ last.op = "migrate"
    /\ last.res = "Ok"
    /\ last.depth = 0
    /\ MigStateOf(last.pre) = 0
    /\ frozenAt = last.from
    /\ frozenAt > 0
    /\ Len(StoredHistory(store)) = 2
    /\ StoredHistory(store)[1].from_version = frozenAt
    /\ MigStateOf(store) = 2

\* reset_migration_state returned Ok on a contract with no version record.
ResetOnUninitialized(call) ==
    /\ call.op = "reset_migration_state"
    /\ call.res = "Ok"
    /\ ~has(call.pre, CONTRACT_VERSION)

ResetNeverInitializesStep ==
    /\ ResetOnUninitialized(last')
        => /\ ~has(store', CONTRACT_VERSION)
           /\ ~has(store', CONTRACT_VERSION_HISTORY)
           /\ ~current_version(store').ok
           /\ current_version(store').err = "NotInitialized"
    /\ (/\ ResetOnUninitialized(last)
        /\ last'.op = "initialize"
        /\ last'.pre = store
        /\ last'.to > 0)
        => (last'.res = "Ok" /\ store'[CONTRACT_VERSION] = last'.to)

\* C38: reset_migration_state called on a contract with no version record
\* succeeds but creates no version record and no history, so afterwards
\* current_version() still fails with NotInitialized and a following
\* initialize(v) with v > 0 still succeeds.
C38_ResetNeverInitializes == [][ResetNeverInitializesStep]_vars

C38_Witness ==
    /\ last.op = "initialize"
    /\ last.res = "Ok"
    /\ last.to > 0
    /\ MigStateOf(last.pre) = 0
    /\ has(last.pre, MIGRATION_STATE)
    /\ ~has(last.pre, CONTRACT_VERSION)
    /\ store[CONTRACT_VERSION] = last.to

====
